---- MODULE Spec2Model ----
(***************************************************************************)
(* A model of create-sf2.mjs, the SoundFont v2 encoder: prepareSamples,    *)
(* buildNoteToSampleIndex, buildInstrumentZones, buildDrumKitZones and the *)
(* byte writer of createSf2File (writeUint8/16/32, writeFourCC,            *)
(* writeChunk, writeFixedAsciiString).                                     *)
(*                                                                         *)
(* Conventions.  A JavaScript string is the sequence of its UTF-16 code    *)
(* units.  An optional value is a set: {} is undefined, {v} is the value   *)
(* v.  Arrays are sequences (1-based); indices the code stores (sampleID,  *)
(* sampleLink, byte offsets) keep the code's 0-based values.  A Float32    *)
(* sample s is the integer s * FloatOne, so every modelled sample is a     *)
(* dyadic rational, exactly representable as a Float32.                    *)
(***************************************************************************)
EXTENDS Integers, Sequences, FiniteSets, TLC

VARIABLES
    data,         \* the argument of the call in progress
    allSamples,   \* prepareSamples' result (the sample pool)
    zoneDefs,     \* the zone list
    status        \* where the call is

\* ------------------------------------------------------------------------
\* Values
\* ------------------------------------------------------------------------

undefined == {}
Some(v) == {v}
IsDefined(x) == x # {}
Val(x) == CHOOSE v \in x : TRUE

Abs(x) == IF x < 0 THEN -x ELSE x
Min(a, b) == IF a < b THEN a ELSE b

\* Division rounding toward zero (JavaScript's conversion of a number to an
\* integer type drops the fraction).
TruncDiv(a, b) == IF a >= 0 \/ a % b = 0 THEN a \div b ELSE (a \div b) + 1

ToInt16(x) == LET m == x % 65536 IN IF m >= 32768 THEN m - 65536 ELSE m

\* 1.0 as a modelled Float32 sample.
FloatOne == 2^16

\* ------------------------------------------------------------------------
\* Strings
\* ------------------------------------------------------------------------

Str_Empty == <<69, 109, 112, 116, 121>>                       \* 'Empty'
Str_sample_ == <<115, 97, 109, 112, 108, 101, 95>>            \* 'sample_'
Str_L == <<95, 76>>                                           \* '_L'
Str_R == <<95, 82>>                                           \* '_R'
Str_RIFF == <<82, 73, 70, 70>>  \* 'RIFF'
Str_sfbk == <<115, 102, 98, 107>>  \* 'sfbk'
Str_LIST == <<76, 73, 83, 84>>  \* 'LIST'
Str_INFO == <<73, 78, 70, 79>>  \* 'INFO'
Str_ifil == <<105, 102, 105, 108>>  \* 'ifil'
Str_isng == <<105, 115, 110, 103>>  \* 'isng'
Str_EMU8000 == <<69, 77, 85, 56, 48, 48, 48>>  \* 'EMU8000'
Str_INAM == <<73, 78, 65, 77>>  \* 'INAM'
Str_Untitled_SoundFont == <<85, 110, 116, 105, 116, 108, 101, 100, 32, 83, 111, 117, 110, 100, 70, 111, 110, 116>>  \* 'Untitled SoundFont'
Str_IENG == <<73, 69, 78, 71>>  \* 'IENG'
Str_sf2create == <<115, 102, 50, 99, 114, 101, 97, 116, 101>>  \* 'sf2create'
Str_sdta == <<115, 100, 116, 97>>  \* 'sdta'
Str_smpl == <<115, 109, 112, 108>>  \* 'smpl'
Str_pdta == <<112, 100, 116, 97>>  \* 'pdta'
Str_phdr == <<112, 104, 100, 114>>  \* 'phdr'
Str_Preset == <<80, 114, 101, 115, 101, 116>>  \* 'Preset'
Str_EOP == <<69, 79, 80>>  \* 'EOP'
Str_pbag == <<112, 98, 97, 103>>  \* 'pbag'
Str_pmod == <<112, 109, 111, 100>>  \* 'pmod'
Str_pgen == <<112, 103, 101, 110>>  \* 'pgen'
Str_inst == <<105, 110, 115, 116>>  \* 'inst'
Str_Instrument == <<73, 110, 115, 116, 114, 117, 109, 101, 110, 116>>  \* 'Instrument'
Str_EOI == <<69, 79, 73>>  \* 'EOI'
Str_ibag == <<105, 98, 97, 103>>  \* 'ibag'
Str_imod == <<105, 109, 111, 100>>  \* 'imod'
Str_igen == <<105, 103, 101, 110>>  \* 'igen'
Str_shdr == <<115, 104, 100, 114>>  \* 'shdr'
Str_EOS == <<69, 79, 83>>  \* 'EOS'

RECURSIVE DecimalString(_)
DecimalString(n) ==
    IF n < 10 THEN <<48 + n>> ELSE Append(DecimalString(n \div 10), 48 + (n % 10))

slice(str, from, to) == SubSeq(str, from + 1, Min(to, Len(str)))
sliceEnd(str, drop) == SubSeq(str, 1, Len(str) - drop)           \* str.slice(0, -drop)
endsWith(str, suffix) ==
    /\ Len(str) >= Len(suffix)
    /\ SubSeq(str, Len(str) - Len(suffix) + 1, Len(str)) = suffix
replaceAllSpaces(str) == SelectSeq(str, LAMBDA c : c # 32)       \* replaceAll(' ', '')
toLowerCase(str) == [i \in 1..Len(str) |-> IF str[i] \in 65..90 THEN str[i] + 32 ELSE str[i]]
WhiteSpace == {9, 10, 11, 12, 13, 32}
RECURSIVE trimStart(_)
trimStart(str) ==
    IF str # <<>> /\ Head(str) \in WhiteSpace THEN trimStart(Tail(str)) ELSE str
RECURSIVE trimEnd(_)
trimEnd(str) ==
    IF str # <<>> /\ str[Len(str)] \in WhiteSpace
    THEN trimEnd(SubSeq(str, 1, Len(str) - 1)) ELSE str
trim(str) == trimEnd(trimStart(str))

\* ------------------------------------------------------------------------
\* 0. Helpful utilities
\* ------------------------------------------------------------------------

GM_DRUM_MAP_DEFAULTS ==
  <<
     [key |-> <<97,99,111,117,115,116,105,99,32,98,97,115,115,32,100,114,117,109>>, rootNote |-> {35}, exclusiveClass |-> {}],  \* acoustic bass drum
     [key |-> <<98,97,115,115,32,100,114,117,109,32,49>>, rootNote |-> {36}, exclusiveClass |-> {}],  \* bass drum 1
     [key |-> <<107,105,99,107>>, rootNote |-> {36}, exclusiveClass |-> {}],  \* kick
     [key |-> <<115,105,100,101,32,115,116,105,99,107>>, rootNote |-> {37}, exclusiveClass |-> {}],  \* side stick
     [key |-> <<97,99,111,117,115,116,105,99,32,115,110,97,114,101>>, rootNote |-> {38}, exclusiveClass |-> {}],  \* acoustic snare
     [key |-> <<115,110,97,114,101>>, rootNote |-> {38}, exclusiveClass |-> {}],  \* snare
     [key |-> <<104,97,110,100,32,99,108,97,112>>, rootNote |-> {39}, exclusiveClass |-> {}],  \* hand clap
     [key |-> <<99,108,97,112>>, rootNote |-> {39}, exclusiveClass |-> {}],  \* clap
     [key |-> <<101,108,101,99,116,114,105,99,32,115,110,97,114,101>>, rootNote |-> {40}, exclusiveClass |-> {}],  \* electric snare
     [key |-> <<108,111,119,32,102,108,111,111,114,32,116,111,109>>, rootNote |-> {41}, exclusiveClass |-> {}],  \* low floor tom
     [key |-> <<99,108,111,115,101,100,32,104,105,45,104,97,116>>, rootNote |-> {42}, exclusiveClass |-> {1}],  \* closed hi-hat
     [key |-> <<99,108,111,115,101,100,104,97,116>>, rootNote |-> {42}, exclusiveClass |-> {1}],  \* closedhat
     [key |-> <<104,97,116,45,99,108,111,115,101,100>>, rootNote |-> {42}, exclusiveClass |-> {1}],  \* hat-closed
     [key |-> <<104,105,103,104,32,102,108,111,111,114,32,116,111,109>>, rootNote |-> {43}, exclusiveClass |-> {}],  \* high floor tom
     [key |-> <<112,101,100,97,108,32,104,105,45,104,97,116>>, rootNote |-> {44}, exclusiveClass |-> {1}],  \* pedal hi-hat
     [key |-> <<108,111,119,32,116,111,109>>, rootNote |-> {45}, exclusiveClass |-> {}],  \* low tom
     [key |-> <<111,112,101,110,32,104,105,45,104,97,116>>, rootNote |-> {46}, exclusiveClass |-> {1}],  \* open hi-hat
     [key |-> <<111,112,101,110,104,97,116>>, rootNote |-> {46}, exclusiveClass |-> {1}],  \* openhat
     [key |-> <<104,97,116,45,111,112,101,110>>, rootNote |-> {46}, exclusiveClass |-> {1}],  \* hat-open
     [key |-> <<108,111,119,45,109,105,100,32,116,111,109>>, rootNote |-> {47}, exclusiveClass |-> {}],  \* low-mid tom
     [key |-> <<104,105,45,109,105,100,32,116,111,109>>, rootNote |-> {48}, exclusiveClass |-> {}],  \* hi-mid tom
     [key |-> <<99,114,97,115,104,32,99,121,109,98,97,108,32,49>>, rootNote |-> {49}, exclusiveClass |-> {}],  \* crash cymbal 1
     [key |-> <<99,114,97,115,104>>, rootNote |-> {49}, exclusiveClass |-> {}],  \* crash
     [key |-> <<104,105,103,104,32,116,111,109>>, rootNote |-> {50}, exclusiveClass |-> {}],  \* high tom
     [key |-> <<114,105,100,101,32,99,121,109,98,97,108,32,49>>, rootNote |-> {51}, exclusiveClass |-> {}],  \* ride cymbal 1
     [key |-> <<114,105,100,101>>, rootNote |-> {51}, exclusiveClass |-> {}],  \* ride
     [key |-> <<99,104,105,110,101,115,101,32,99,121,109,98,97,108>>, rootNote |-> {52}, exclusiveClass |-> {}],  \* chinese cymbal
     [key |-> <<114,105,100,101,32,98,101,108,108>>, rootNote |-> {53}, exclusiveClass |-> {}],  \* ride bell
     [key |-> <<116,97,109,98,111,117,114,105,110,101>>, rootNote |-> {54}, exclusiveClass |-> {}],  \* tambourine
     [key |-> <<115,112,108,97,115,104,32,99,121,109,98,97,108>>, rootNote |-> {55}, exclusiveClass |-> {}],  \* splash cymbal
     [key |-> <<99,111,119,98,101,108,108>>, rootNote |-> {56}, exclusiveClass |-> {}],  \* cowbell
     [key |-> <<99,114,97,115,104,32,99,121,109,98,97,108,32,50>>, rootNote |-> {57}, exclusiveClass |-> {}],  \* crash cymbal 2
     [key |-> <<118,105,98,114,97,115,108,97,112>>, rootNote |-> {58}, exclusiveClass |-> {}],  \* vibraslap
     [key |-> <<114,105,100,101,32,99,121,109,98,97,108,32,50>>, rootNote |-> {59}, exclusiveClass |-> {}],  \* ride cymbal 2
     [key |-> <<104,105,32,98,111,110,103,111>>, rootNote |-> {60}, exclusiveClass |-> {}],  \* hi bongo
     [key |-> <<108,111,119,32,98,111,110,103,111>>, rootNote |-> {61}, exclusiveClass |-> {}],  \* low bongo
     [key |-> <<109,117,116,101,32,104,105,32,99,111,110,103,97>>, rootNote |-> {62}, exclusiveClass |-> {}],  \* mute hi conga
     [key |-> <<111,112,101,110,32,104,105,32,99,111,110,103,97>>, rootNote |-> {63}, exclusiveClass |-> {}],  \* open hi conga
     [key |-> <<108,111,119,32,99,111,110,103,97>>, rootNote |-> {64}, exclusiveClass |-> {}],  \* low conga
     [key |-> <<104,105,103,104,32,116,105,109,98,97,108,101>>, rootNote |-> {65}, exclusiveClass |-> {}],  \* high timbale
     [key |-> <<108,111,119,32,116,105,109,98,97,108,101>>, rootNote |-> {66}, exclusiveClass |-> {}],  \* low timbale
     [key |-> <<104,105,103,104,32,97,103,111,103,111>>, rootNote |-> {67}, exclusiveClass |-> {}],  \* high agogo
     [key |-> <<108,111,119,32,97,103,111,103,111>>, rootNote |-> {68}, exclusiveClass |-> {}],  \* low agogo
     [key |-> <<99,97,98,97,115,97>>, rootNote |-> {69}, exclusiveClass |-> {}],  \* cabasa
     [key |-> <<109,97,114,97,99,97,115>>, rootNote |-> {70}, exclusiveClass |-> {}],  \* maracas
     [key |-> <<115,104,111,114,116,32,119,104,105,115,116,108,101>>, rootNote |-> {71}, exclusiveClass |-> {}],  \* short whistle
     [key |-> <<108,111,110,103,32,119,104,105,115,116,108,101>>, rootNote |-> {72}, exclusiveClass |-> {}],  \* long whistle
     [key |-> <<115,104,111,114,116,32,103,117,105,114,111>>, rootNote |-> {73}, exclusiveClass |-> {}],  \* short guiro
     [key |-> <<108,111,110,103,32,103,117,105,114,111>>, rootNote |-> {74}, exclusiveClass |-> {}],  \* long guiro
     [key |-> <<112,101,114,99,117,115,115,105,111,110>>, rootNote |-> {75}, exclusiveClass |-> {}],  \* percussion
     [key |-> <<99,108,97,118,101,115>>, rootNote |-> {75}, exclusiveClass |-> {}],  \* claves
     [key |-> <<104,105,32,119,111,111,100,32,98,108,111,99,107>>, rootNote |-> {76}, exclusiveClass |-> {}],  \* hi wood block
     [key |-> <<108,111,119,32,119,111,111,100,32,98,108,111,99,107>>, rootNote |-> {77}, exclusiveClass |-> {}],  \* low wood block
     [key |-> <<109,117,116,101,32,99,117,105,99,97>>, rootNote |-> {78}, exclusiveClass |-> {}],  \* mute cuica
     [key |-> <<111,112,101,110,32,99,117,105,99,97>>, rootNote |-> {79}, exclusiveClass |-> {}],  \* open cuica
     [key |-> <<109,117,116,101,32,116,114,105,97,110,103,108,101>>, rootNote |-> {80}, exclusiveClass |-> {2}],  \* mute triangle
     [key |-> <<111,112,101,110,32,116,114,105,97,110,103,108,101>>, rootNote |-> {81}, exclusiveClass |-> {2}]  \* open triangle
  >>

\* A faulty drumKey: the name is looked up as it is.
drumKeyVerbatim(name) == name

\* name.toLowerCase().trim()  (line 129)
drumKey(name) == trim(toLowerCase(name))

\* GM_DRUM_MAP_DEFAULTS[key] || {}
drumDefaults(key) ==
    LET hits == {i \in 1..Len(GM_DRUM_MAP_DEFAULTS) : GM_DRUM_MAP_DEFAULTS[i].key = key}
    IN  IF hits = {}
        THEN [rootNote |-> undefined, exclusiveClass |-> undefined]
        ELSE LET e == GM_DRUM_MAP_DEFAULTS[CHOOSE i \in hits : TRUE]
             IN  [rootNote |-> e.rootNote, exclusiveClass |-> e.exclusiveClass]

\* A faulty float32ToInt16: one scale, 32768, for both signs.
float32ToInt16OneScale(floatArray) ==
    [i \in 1..Len(floatArray) |->
        LET s0 == floatArray[i]
            s  == IF s0 > FloatOne THEN FloatOne
                  ELSE IF s0 < -FloatOne THEN -FloatOne ELSE s0
        IN  ToInt16(TruncDiv(s * 32768, FloatOne))]

float32ToInt16(floatArray) ==
    [i \in 1..Len(floatArray) |->
        LET s0 == floatArray[i]
            s  == IF s0 > FloatOne THEN FloatOne
                  ELSE IF s0 < -FloatOne THEN -FloatOne ELSE s0
        IN  ToInt16(IF s < 0 THEN TruncDiv(s * 32768, FloatOne)
                             ELSE TruncDiv(s * 32767, FloatOne))]

\* ------------------------------------------------------------------------
\* prepareSamples
\* ------------------------------------------------------------------------

\* a ?? b
Coalesce(a, b) == IF IsDefined(a) THEN a ELSE b

\* A faulty emptySample: the placeholder is not silent.
emptySampleClick ==
    [name |-> Str_Empty, pcm16 |-> <<0, 0, 0, 1>>, sampleRate |-> 44100,
     rootNote |-> 60, originalPitch |-> undefined, exclusiveClass |-> undefined,
     loopStart |-> 0, loopEnd |-> 1, sampleMode |-> 0, sampleLink |-> 0,
     sampleType |-> 1, channels |-> 1]

\* The "trivial silent sample" of an empty input (lines 105-120).
emptySample ==
    [name |-> Str_Empty, pcm16 |-> <<0, 0, 0, 0>>, sampleRate |-> 44100,
     rootNote |-> 60, originalPitch |-> undefined, exclusiveClass |-> undefined,
     loopStart |-> 0, loopEnd |-> 1, sampleMode |-> 0, sampleLink |-> 0,
     sampleType |-> 1, channels |-> 1]

\* A faulty computeLoop: equal bounds pass for a loop.
computeLoopInclusive(userS, numFrames) ==
    IF /\ IsDefined(userS.loopStart)
       /\ IsDefined(userS.loopEnd)
       /\ Val(userS.loopEnd) >= Val(userS.loopStart)
       /\ Val(userS.loopStart) >= 0
       /\ Val(userS.loopEnd) <= numFrames
    THEN [mode |-> 1, start |-> Val(userS.loopStart), end |-> Val(userS.loopEnd)]
    ELSE [mode |-> 0, start |-> numFrames - 1, end |-> numFrames]

\* computeLoop (lines 139-155); userS is the descriptor it closes over.
computeLoop(userS, numFrames) ==
    IF /\ IsDefined(userS.loopStart)
       /\ IsDefined(userS.loopEnd)
       /\ Val(userS.loopEnd) > Val(userS.loopStart)
       /\ Val(userS.loopStart) >= 0
       /\ Val(userS.loopEnd) <= numFrames
    THEN [mode |-> 1, start |-> Val(userS.loopStart), end |-> Val(userS.loopEnd)]
    ELSE [mode |-> 0, start |-> numFrames - 1, end |-> numFrames]

\* The records one descriptor contributes (one loop iteration, lines 124-223).
sampleRecords(isDrumKit, userS, idx) ==
    LET name == IF userS.name # <<>> THEN userS.name ELSE Str_sample_ \o DecimalString(idx)
        sr   == IF IsDefined(userS.sampleRate) /\ Val(userS.sampleRate) # 0
                THEN Val(userS.sampleRate) ELSE 44100
        defaults == drumDefaults(drumKey(name))
        root == IF isDrumKit
                THEN Val(Coalesce(userS.rootNote, Coalesce(defaults.rootNote, Some(60))))
                ELSE IF userS.rootNote = undefined THEN 60 ELSE Val(userS.rootNote)
        exclusiveClass ==
                IF isDrumKit
                THEN Coalesce(userS.exclusiveClass, Coalesce(defaults.exclusiveClass, Some(0)))
                ELSE Some(0)
        originalPitch == IF isDrumKit THEN 255 ELSE root
    IN  IF userS.channels = 2
        THEN LET stereo    == IF IsDefined(userS.rawStereoData)
                              THEN Val(userS.rawStereoData) ELSE <<0, 0>>
                 numFrames == Len(stereo) \div 2
                 leftF     == [i \in 1..numFrames |-> stereo[2 * i - 1]]
                 rightF    == [i \in 1..numFrames |-> stereo[2 * i]]
                 loop      == computeLoop(userS, numFrames)
                 base      == replaceAllSpaces(slice(name, 0, 17))
                 rec(nm, pcm, type) ==
                     [name |-> nm, pcm16 |-> pcm, sampleRate |-> sr, rootNote |-> root,
                      originalPitch |-> Some(originalPitch),
                      exclusiveClass |-> exclusiveClass,
                      loopStart |-> loop.start, loopEnd |-> loop.end,
                      sampleMode |-> loop.mode, sampleLink |-> 0,
                      sampleType |-> type, channels |-> 2]
             IN  << rec(base \o Str_L, float32ToInt16(leftF), 4),
                    rec(base \o Str_R, float32ToInt16(rightF), 2) >>
        ELSE LET raw       == IF IsDefined(userS.rawMonoData)
                              THEN Val(userS.rawMonoData) ELSE <<0>>
                 pcm16     == float32ToInt16(raw)
                 numFrames == Len(pcm16)
                 loop      == computeLoop(userS, numFrames)
             IN  << [name |-> name, pcm16 |-> pcm16, sampleRate |-> sr, rootNote |-> root,
                     originalPitch |-> Some(originalPitch),
                     exclusiveClass |-> exclusiveClass,
                     loopStart |-> loop.start, loopEnd |-> loop.end,
                     sampleMode |-> loop.mode, sampleLink |-> 0,
                     sampleType |-> 1, channels |-> 1] >>

\* The main loop over data.samples (lines 122-226); idx counts descriptors.
RECURSIVE collectSamples(_, _, _)
collectSamples(isDrumKit, samples, idx) ==
    IF idx >= Len(samples) THEN <<>>
    ELSE sampleRecords(isDrumKit, samples[idx + 1], idx)
             \o collectSamples(isDrumKit, samples, idx + 1)

\* One test of the fix-up loop: do records i and i+1 (0-based) form a pair?
isStereoPair(s1, s2) ==
    /\ s1.channels = 2
    /\ s2.channels = 2
    /\ endsWith(s1.name, Str_L)
    /\ endsWith(s2.name, Str_R)
    /\ sliceEnd(s1.name, 2) = sliceEnd(s2.name, 2)

\* A faulty fixSampleLinks: the right record is not linked back to the left.
RECURSIVE fixSampleLinksOneWay(_, _)
fixSampleLinksOneWay(all, i) ==
    IF i >= Len(all) - 1 THEN all
    ELSE IF isStereoPair(all[i + 1], all[i + 2])
         THEN fixSampleLinksOneWay([all EXCEPT ![i + 1].sampleLink = i + 1], i + 1)
         ELSE fixSampleLinksOneWay(all, i + 1)

\* "Now fix up sampleLink for stereo pairs" (lines 229-244), from index i on.
RECURSIVE fixSampleLinks(_, _)
fixSampleLinks(all, i) ==
    IF i >= Len(all) - 1 THEN all
    ELSE IF isStereoPair(all[i + 1], all[i + 2])
         THEN fixSampleLinks([all EXCEPT ![i + 1].sampleLink = i + 1,
                                         ![i + 2].sampleLink = i], i + 1)
         ELSE fixSampleLinks(all, i + 1)

prepareSamples(d) ==
    IF d.samples = <<>>
    THEN <<emptySample>>
    ELSE fixSampleLinks(collectSamples(d.isDrumKit, d.samples, 0), 0)

\* ------------------------------------------------------------------------
\* Building zones
\* ------------------------------------------------------------------------

\* A faulty closestSample: a later record at equal distance wins.
RECURSIVE closestSampleLast(_, _, _, _, _)
closestSampleLast(roots, note, sIdx, bestDiff, bestSampleID) ==
    IF sIdx >= Len(roots) THEN bestSampleID
    ELSE LET diff == Abs(note - roots[sIdx + 1])
         IN  IF bestDiff = {} \/ diff <= Val(bestDiff)
             THEN closestSampleLast(roots, note, sIdx + 1, Some(diff), sIdx)
             ELSE closestSampleLast(roots, note, sIdx + 1, bestDiff, bestSampleID)

\* The inner loop of buildNoteToSampleIndex for one note, from sample sIdx
\* on.  bestDiff = {} stands for Infinity.
RECURSIVE closestSample(_, _, _, _, _)
closestSample(roots, note, sIdx, bestDiff, bestSampleID) ==
    IF sIdx >= Len(roots) THEN bestSampleID
    ELSE LET diff == Abs(note - roots[sIdx + 1])
         IN  IF bestDiff = {} \/ diff < Val(bestDiff)
             THEN closestSample(roots, note, sIdx + 1, Some(diff), sIdx)
             ELSE closestSample(roots, note, sIdx + 1, bestDiff, bestSampleID)

buildNoteToSampleIndex(all) ==
    LET roots == [i \in 1..Len(all) |-> all[i].rootNote]
    IN  [note \in 0..127 |-> closestSample(roots, note, 0, {}, 0)]

pushZonesForRange(all, lo, hi, sampleID) ==
    LET s == all[sampleID + 1]
        mainZone == [keyLo |-> lo, keyHi |-> hi, sampleID |-> sampleID,
                     sampleMode |-> s.sampleMode,
                     pan |-> IF s.sampleType = 4 THEN -500
                             ELSE IF s.sampleType = 2 THEN 500 ELSE 0,
                     exclusiveClass |-> undefined]
    IN  IF s.sampleType = 4 /\ s.sampleLink # 0
        THEN << mainZone,
                [keyLo |-> lo, keyHi |-> hi, sampleID |-> s.sampleLink,
                 sampleMode |-> all[s.sampleLink + 1].sampleMode,
                 pan |-> 500, exclusiveClass |-> undefined] >>
        ELSE << mainZone >>

\* A faulty compressStep: a run is closed at the note that starts the next.
compressStepOverlap(all, noteToSample, st, note) ==
    LET sID == noteToSample[note]
    IN  IF sID # st.currSample
        THEN [zoneStart |-> note, currSample |-> sID,
              zones |-> st.zones \o pushZonesForRange(all, st.zoneStart, note,
                                                      st.currSample)]
        ELSE st

\* One iteration of the run-compression loop of buildInstrumentZones (lines
\* 316-321); st holds the loop's variables zoneStart, currSample and zones.
compressStep(all, noteToSample, st, note) ==
    LET sID == noteToSample[note]
    IN  IF sID # st.currSample
        THEN [zoneStart |-> note, currSample |-> sID,
              zones |-> st.zones \o pushZonesForRange(all, st.zoneStart, note - 1,
                                                      st.currSample)]
        ELSE st

\* The iterations for note = lo .. hi in increasing order.  (They are split
\* in halves, and the first half's zoneStart is looked at before the second
\* half starts, only to keep TLC's evaluation shallow: zoneStart is never
\* negative.)
RECURSIVE compressRuns(_, _, _, _, _)
compressRuns(all, noteToSample, st, lo, hi) ==
    IF lo > hi THEN st
    ELSE IF lo = hi THEN compressStep(all, noteToSample, st, lo)
    ELSE LET mid == (lo + hi) \div 2
             half == compressRuns(all, noteToSample, st, lo, mid)
         IN  IF half.zoneStart >= 0
             THEN compressRuns(all, noteToSample, half, mid + 1, hi)
             ELSE half

\* A faulty buildInstrumentZones: the run in progress is also closed after
\* note 63.
buildInstrumentZonesSplit(all, noteToSample) ==
    LET low == compressRuns(all, noteToSample,
                            [zoneStart |-> 0, currSample |-> noteToSample[0], zones |-> <<>>],
                            1, 63)
        high == compressRuns(all, noteToSample,
                             [zoneStart |-> 64, currSample |-> noteToSample[64],
                              zones |-> low.zones \o pushZonesForRange(all, low.zoneStart, 63,
                                                                       low.currSample)],
                             65, 127)
    IN  high.zones \o pushZonesForRange(all, high.zoneStart, 127, high.currSample)

buildInstrumentZones(all, noteToSample) ==
    LET st == compressRuns(all, noteToSample,
                           [zoneStart |-> 0, currSample |-> noteToSample[0], zones |-> <<>>],
                           1, 127)
    IN  st.zones \o pushZonesForRange(all, st.zoneStart, 127, st.currSample)

\* A faulty drumZonesOf: a right record is not skipped and gets a zone of
\* its own.
drumZonesOfAll(all, i) ==
    LET s == all[i + 1]
        zone == [keyLo |-> s.rootNote, keyHi |-> s.rootNote, sampleID |-> i,
                 sampleMode |-> s.sampleMode,
                 pan |-> IF s.sampleType = 4 THEN -500 ELSE 0,
                 exclusiveClass |-> s.exclusiveClass]
    IN  IF s.sampleType = 4 /\ s.sampleLink # 0
        THEN << zone,
                [keyLo |-> s.rootNote, keyHi |-> s.rootNote, sampleID |-> s.sampleLink,
                 sampleMode |-> all[s.sampleLink + 1].sampleMode,
                 pan |-> 500, exclusiveClass |-> s.exclusiveClass] >>
        ELSE << zone >>

\* The zones sample i (0-based) contributes in buildDrumKitZones.
drumZonesOf(all, i) ==
    LET s == all[i + 1]
        zone == [keyLo |-> s.rootNote, keyHi |-> s.rootNote, sampleID |-> i,
                 sampleMode |-> s.sampleMode,
                 pan |-> IF s.sampleType = 4 THEN -500 ELSE 0,
                 exclusiveClass |-> s.exclusiveClass]
    IN  IF s.sampleType = 2 THEN <<>>
        ELSE IF s.sampleType = 4 /\ s.sampleLink # 0
        THEN << zone,
                [keyLo |-> s.rootNote, keyHi |-> s.rootNote, sampleID |-> s.sampleLink,
                 sampleMode |-> all[s.sampleLink + 1].sampleMode,
                 pan |-> 500, exclusiveClass |-> s.exclusiveClass] >>
        ELSE << zone >>

RECURSIVE drumZonesFrom(_, _)
drumZonesFrom(all, i) ==
    IF i >= Len(all) THEN <<>> ELSE drumZonesOf(all, i) \o drumZonesFrom(all, i + 1)

\* A faulty buildDrumKitZones: the loop starts at the second record.
buildDrumKitZonesFromSecond(all) == drumZonesFrom(all, 1)

buildDrumKitZones(all) == drumZonesFrom(all, 0)

\* A faulty buildZones: in melodic mode a sample list whose descriptors all
\* carry a noteRange gets one zone per record, over its descriptor's range.
buildZonesByNoteRange(d, all) ==
    IF d.isDrumKit THEN buildDrumKitZones(all)
    ELSE IF /\ Len(all) = Len(d.samples)
            /\ \A k \in 1..Len(d.samples) : d.samples[k].noteRange # {}
         THEN [k \in 1..Len(all) |->
                  LET range == CHOOSE r \in d.samples[k].noteRange : TRUE
                  IN  [keyLo |-> range[1], keyHi |-> range[2], sampleID |-> k - 1,
                       sampleMode |-> all[k].sampleMode, pan |-> 0,
                       exclusiveClass |-> {}]]
         ELSE buildInstrumentZones(all, buildNoteToSampleIndex(all))

\* Step 2 of createSf2File (lines 372-378).
buildZones(d, all) ==
    IF d.isDrumKit THEN buildDrumKitZones(all)
    ELSE buildInstrumentZones(all, buildNoteToSampleIndex(all))

\* ------------------------------------------------------------------------
\* Bytes
\* ------------------------------------------------------------------------

\* The bytes DataView.setUint8/16/32(offset, val, true) stores: val modulo
\* 2^8, 2^16, 2^32, little-endian.  (\div rounds down and % is non-negative,
\* so a negative val gives its two's complement.)
uint8(val) == << val % 256 >>
uint16(val) == << val % 256, (val \div 256) % 256 >>
uint32(val) == << val % 256, (val \div 256) % 256,
                 (val \div 65536) % 256, (val \div 16777216) % 256 >>

\* TextEncoder.encode: UTF-8 (code units below 0x800; no surrogates modelled).
RECURSIVE encode(_)
encode(str) ==
    IF str = <<>> THEN <<>>
    ELSE LET c == Head(str)
         IN  (IF c < 128 THEN <<c>>
              ELSE << 192 + (c \div 64), 128 + (c % 64) >>) \o encode(Tail(str))

\* The `length` bytes writeFixedAsciiString stores (lines 86-96).
fixedAsciiBytes(str, length) ==
    LET bytes == encode(slice(str, 0, length))
    IN  [i \in 1..length |-> IF i <= Len(bytes) THEN bytes[i] ELSE 0]

\* ------------------------------------------------------------------------
\* The calls createSf2File makes, in order
\*
\* Step 3 of createSf2File is straight-line code over the closures
\* writeUint8/16/32, writeFourCC and writeChunk.  Calls(d, all, zones) is the
\* sequence of calls it makes for one input; the actions below execute it
\* one call at a time.  writeChunk(id, payloadFn) appears as a "writeChunk"
\* entry, the calls payloadFn makes, and an "endChunk" entry (the code after
\* payloadFn returns).
\* ------------------------------------------------------------------------

Call(op, val, str) == [op |-> op, val |-> val, str |-> str]
writeUint8Call(val) == Call("writeUint8", val, <<>>)
writeUint16Call(val) == Call("writeUint16", val, <<>>)
writeUint32Call(val) == Call("writeUint32", val, <<>>)
writeFourCCCall(cc) == Call("writeFourCC", 0, cc)
writeFixedCall(str) == Call("writeFixedAsciiString", 20, str)
writeChunkCalls(id, payload) ==
    << Call("writeChunk", 0, id) >> \o payload \o << Call("endChunk", 0, <<>>) >>

\* for (i < str.length) writeUint8(str.charCodeAt(i)); writeUint8(0);
cStringCalls(str) ==
    [i \in 1..Len(str) + 1 |-> writeUint8Call(IF i <= Len(str) THEN str[i] ELSE 0)]

\* for (i < 20) writeUint8(i < name.length ? name.charCodeAt(i) : 0);
name20Calls(name) ==
    [i \in 1..20 |-> writeUint8Call(IF i <= Len(name) THEN name[i] ELSE 0)]

Repeat(n, call) == [i \in 1..n |-> call]

RECURSIVE Flatten(_)
Flatten(seqs) == IF seqs = <<>> THEN <<>> ELSE Head(seqs) \o Flatten(Tail(seqs))

orDefault(str, default) == IF str # <<>> THEN str ELSE default      \* str || default

\* A faulty infoCalls: IENG is written only for an author of the caller's.
infoCallsNoDefaultAuthor(d) ==
    writeChunkCalls(Str_LIST,
        << writeFourCCCall(Str_INFO) >>
        \o writeChunkCalls(Str_ifil, << writeUint16Call(2), writeUint16Call(1) >>)
        \o writeChunkCalls(Str_isng, cStringCalls(Str_EMU8000))
        \o writeChunkCalls(Str_INAM, cStringCalls(orDefault(d.name, Str_Untitled_SoundFont)))
        \o (IF d.author # <<>> THEN writeChunkCalls(Str_IENG, cStringCalls(d.author))
            ELSE <<>>))

\* LIST "INFO" (lines 438-476)
infoCalls(d) ==
    writeChunkCalls(Str_LIST,
        << writeFourCCCall(Str_INFO) >>
        \o writeChunkCalls(Str_ifil, << writeUint16Call(2), writeUint16Call(1) >>)
        \o writeChunkCalls(Str_isng, cStringCalls(Str_EMU8000))
        \o writeChunkCalls(Str_INAM, cStringCalls(orDefault(d.name, Str_Untitled_SoundFont)))
        \o (LET author == orDefault(d.author, Str_sf2create)
            IN  IF author # <<>> THEN writeChunkCalls(Str_IENG, cStringCalls(author))
                ELSE <<>>))

\* A faulty smplCallsOf: one guard frame short.
smplCallsOfShort(s) ==
    [i \in 1..Len(s.pcm16) |-> writeUint16Call(s.pcm16[i])] \o Repeat(45, writeUint16Call(0))

\* LIST "sdta" => smpl (lines 481-495)
smplCallsOf(s) ==
    [i \in 1..Len(s.pcm16) |-> writeUint16Call(s.pcm16[i])] \o Repeat(46, writeUint16Call(0))

sdtaCalls(all) ==
    writeChunkCalls(Str_LIST,
        << writeFourCCCall(Str_sdta) >>
        \o writeChunkCalls(Str_smpl, Flatten([i \in 1..Len(all) |-> smplCallsOf(all[i])])))

\* phdr, pbag, pmod, pgen (lines 506-572)
phdrCalls(d) ==
    writeChunkCalls(Str_phdr,
        name20Calls(orDefault(d.name, Str_Preset))
        \o << writeUint16Call(0), writeUint16Call(IF d.isDrumKit THEN 128 ELSE 0),
              writeUint16Call(0),
              writeUint32Call(0), writeUint32Call(0), writeUint32Call(0) >>
        \o name20Calls(Str_EOP)
        \o << writeUint16Call(0), writeUint16Call(0), writeUint16Call(2),
              writeUint32Call(0), writeUint32Call(0), writeUint32Call(0) >>)

pbagCalls ==
    writeChunkCalls(Str_pbag,
        << writeUint16Call(0), writeUint16Call(0),
           writeUint16Call(0), writeUint16Call(0),
           writeUint16Call(1), writeUint16Call(0) >>)

pmodCalls == writeChunkCalls(Str_pmod, Repeat(10, writeUint8Call(0)))

pgenCalls ==
    writeChunkCalls(Str_pgen,
        << writeUint16Call(41), writeUint16Call(0), writeUint16Call(0), writeUint16Call(0) >>)

\* A faulty instCalls: the EOI record points at the zone count.
instCallsNoGlobal(d, zones) ==
    writeChunkCalls(Str_inst,
        << writeFixedCall(orDefault(d.name, Str_Instrument)), writeUint16Call(0),
           writeFixedCall(Str_EOI), writeUint16Call(Len(zones)) >>)

\* inst (lines 577-590)
instCalls(d, zones) ==
    writeChunkCalls(Str_inst,
        << writeFixedCall(orDefault(d.name, Str_Instrument)), writeUint16Call(0),
           writeFixedCall(Str_EOI), writeUint16Call(Len(zones) + 1) >>)

\* A faulty ibagCount: the pan generator is not counted.
ibagCountNoPan(d, z) ==
    2 + (IF z.sampleMode = 1 THEN 1 ELSE 0)
      + (IF d.isDrumKit /\ IsDefined(z.exclusiveClass) /\ Val(z.exclusiveClass) > 0
         THEN 1 ELSE 0)

\* ibag (lines 595-621): `count` for one zone, and the loop from zone i on.
ibagCount(d, z) ==
    2 + (IF z.sampleMode = 1 THEN 1 ELSE 0)
      + (IF z.pan # 0 THEN 1 ELSE 0)
      + (IF d.isDrumKit /\ IsDefined(z.exclusiveClass) /\ Val(z.exclusiveClass) > 0
         THEN 1 ELSE 0)

RECURSIVE ibagLoop(_, _, _, _)
ibagLoop(d, zones, i, genOffset) ==
    IF i >= Len(zones)
    THEN << writeUint16Call(genOffset), writeUint16Call(0) >>
    ELSE << writeUint16Call(genOffset), writeUint16Call(0) >>
         \o ibagLoop(d, zones, i + 1, genOffset + ibagCount(d, zones[i + 1]))

\* A faulty ibagCalls: the global bag is written for a drum kit only.
ibagCallsGlobalForDrums(d, zones) ==
    writeChunkCalls(Str_ibag,
        (IF d.isDrumKit THEN << writeUint16Call(0), writeUint16Call(0) >> ELSE <<>>)
        \o ibagLoop(d, zones, 0, IF d.isDrumKit THEN 2 ELSE 0))

ibagCalls(d, zones) ==
    writeChunkCalls(Str_ibag,
        << writeUint16Call(0), writeUint16Call(0) >>
        \o ibagLoop(d, zones, 0, IF d.isDrumKit THEN 2 ELSE 0))

imodCalls == writeChunkCalls(Str_imod, Repeat(10, writeUint8Call(0)))

\* A faulty igenCallsOf: the pan generator is written before the loop mode.
igenCallsOfPanFirst(d, z) ==
    << writeUint16Call(43), writeUint16Call(z.keyHi * 256 + z.keyLo) >>
    \o (IF z.pan # 0 THEN << writeUint16Call(17), writeUint16Call(z.pan) >> ELSE <<>>)
    \o (IF z.sampleMode = 1 THEN << writeUint16Call(54), writeUint16Call(1) >> ELSE <<>>)
    \o (IF d.isDrumKit /\ IsDefined(z.exclusiveClass) /\ Val(z.exclusiveClass) > 0
        THEN << writeUint16Call(57), writeUint16Call(Val(z.exclusiveClass)) >> ELSE <<>>)
    \o << writeUint16Call(53), writeUint16Call(z.sampleID) >>

\* igen (lines 636-680).  keyHi << 8 | keyLo is keyHi * 256 + keyLo for the
\* keys 0..255 the model feeds it.
igenCallsOf(d, z) ==
    << writeUint16Call(43), writeUint16Call(z.keyHi * 256 + z.keyLo) >>
    \o (IF z.sampleMode = 1 THEN << writeUint16Call(54), writeUint16Call(1) >> ELSE <<>>)
    \o (IF z.pan # 0 THEN << writeUint16Call(17), writeUint16Call(z.pan) >> ELSE <<>>)
    \o (IF d.isDrumKit /\ IsDefined(z.exclusiveClass) /\ Val(z.exclusiveClass) > 0
        THEN << writeUint16Call(57), writeUint16Call(Val(z.exclusiveClass)) >> ELSE <<>>)
    \o << writeUint16Call(53), writeUint16Call(z.sampleID) >>

igenCalls(d, zones) ==
    writeChunkCalls(Str_igen,
        (IF d.isDrumKit
         THEN << writeUint16Call(56), writeUint16Call(0),
                 writeUint16Call(38), writeUint16Call(12000) >>
         ELSE <<>>)
        \o Flatten([i \in 1..Len(zones) |-> igenCallsOf(d, zones[i])])
        \o << writeUint16Call(0), writeUint16Call(0) >>)

\* shdr (lines 685-721): the loop from sample i on, and the terminal record.
\* writeUint8(undefined) stores 0.
RECURSIVE shdrLoop(_, _, _)
shdrLoop(all, i, startPos) ==
    IF i >= Len(all) THEN <<>>
    ELSE LET s == all[i + 1]
             numFrames == Len(s.pcm16)
             endPos == startPos + numFrames
             realLoopStart == startPos + s.loopStart
             realLoopEnd == startPos + s.loopEnd
         IN  << writeFixedCall(s.name),
                writeUint32Call(startPos), writeUint32Call(endPos),
                writeUint32Call(realLoopStart), writeUint32Call(realLoopEnd),
                writeUint32Call(s.sampleRate),
                writeUint8Call(IF IsDefined(s.originalPitch) THEN Val(s.originalPitch) ELSE 0),
                writeUint8Call(0),
                writeUint16Call(s.sampleLink), writeUint16Call(s.sampleType) >>
             \o shdrLoop(all, i + 1, startPos + numFrames + 46)

shdrCalls(all) ==
    writeChunkCalls(Str_shdr,
        shdrLoop(all, 0, 0)
        \o << writeFixedCall(Str_EOS) >> \o Repeat(5, writeUint32Call(0))
        \o << writeUint8Call(0), writeUint8Call(0), writeUint16Call(0), writeUint16Call(0) >>)

\* A faulty pdtaCalls: eight sub-chunks, the instrument modulators left out.
pdtaCallsEight(d, all, zones) ==
    writeChunkCalls(Str_LIST,
        << writeFourCCCall(Str_pdta) >>
        \o phdrCalls(d) \o pbagCalls \o pmodCalls \o pgenCalls
        \o instCalls(d, zones) \o ibagCalls(d, zones)
        \o igenCalls(d, zones) \o shdrCalls(all))

\* LIST "pdta" (lines 500-722)
pdtaCalls(d, all, zones) ==
    writeChunkCalls(Str_LIST,
        << writeFourCCCall(Str_pdta) >>
        \o phdrCalls(d) \o pbagCalls \o pmodCalls \o pgenCalls
        \o instCalls(d, zones) \o ibagCalls(d, zones) \o imodCalls
        \o igenCalls(d, zones) \o shdrCalls(all))

\* Lines 430-731.
Calls(d, all, zones) ==
    << writeFourCCCall(Str_RIFF), Call("reserveTotalSize", 0, <<>>),
       writeFourCCCall(Str_sfbk) >>
    \o infoCalls(d) \o sdtaCalls(all) \o pdtaCalls(d, all, zones)
    \o << Call("return", 0, <<>>) >>

\* ------------------------------------------------------------------------
\* The writer closures (lines 381-425) as functions of the writer's state
\* w = [buffer, offset, thrown].  buffer is the written prefix of the
\* ArrayBuffer (every byte beyond it is still the 0 it was allocated with);
\* thrown is "" until a call throws, and then nothing more is done.
\* ------------------------------------------------------------------------

\* The ArrayBuffer's size.  The code allocates 4 * 1024 * 1024 bytes (line
\* 381); the model scales it down so that an encode can reach the end of it.
approximateSize == 900

\* buffer with `bytes` stored from byte `at` on.
zeros(n) == [i \in 1..n |-> 0]
store(buffer, at, bytes) ==
    LET known == IF at <= Len(buffer) THEN buffer ELSE buffer \o zeros(at - Len(buffer))
    IN  SubSeq(known, 1, at) \o bytes \o SubSeq(known, at + Len(bytes) + 1, Len(known))

\* A faulty setBytes: bytes that do not fit are dropped without an error.
setBytesDropping(w, at, bytes) ==
    IF w.thrown # "" THEN w
    ELSE IF at < 0 \/ at + Len(bytes) > approximateSize
         THEN w
         ELSE [w EXCEPT !.buffer = store(w.buffer, at, bytes)]

\* DataView.setUintN(at, ...): a RangeError unless the bytes lie inside the buffer.
setBytes(w, at, bytes) ==
    IF w.thrown # "" THEN w
    ELSE IF at < 0 \/ at + Len(bytes) > approximateSize
         THEN [w EXCEPT !.thrown = "RangeError"]
         ELSE [w EXCEPT !.buffer = store(w.buffer, at, bytes)]

advance(w, n) == IF w.thrown # "" THEN w ELSE [w EXCEPT !.offset = w.offset + n]

writeUint32(w, val) == advance(setBytes(w, w.offset, uint32(val)), 4)
writeUint16(w, val) == advance(setBytes(w, w.offset, uint16(val)), 2)
writeUint8(w, val) == advance(setBytes(w, w.offset, uint8(val)), 1)

\* A faulty writeFourCC: no length test; charCodeAt past the end stores 0.
writeFourCCUnchecked(w, cc) ==
    LET code(i) == IF i <= Len(cc) THEN cc[i] ELSE 0
    IN  writeUint8(writeUint8(writeUint8(writeUint8(w, code(1)), code(2)), code(3)), code(4))

writeFourCC(w, cc) ==
    IF w.thrown # "" THEN w
    ELSE IF Len(cc) # 4 THEN [w EXCEPT !.thrown = "FourCC must be 4 chars"]
    ELSE writeUint8(writeUint8(writeUint8(writeUint8(w, cc[1]), cc[2]), cc[3]), cc[4])

\* view.setUint8(offset + i, ...) for i = from .. length-1 (both loops of
\* writeFixedAsciiString).
RECURSIVE setFixedFrom(_, _, _)
setFixedFrom(w, bytes, from) ==
    IF from >= Len(bytes) THEN w
    ELSE setFixedFrom(setBytes(w, w.offset + from, << bytes[from + 1] >>), bytes, from + 1)

\* writeFixedAsciiString(view, offset, str, length); offset += length;
writeFixedAsciiString(w, str, length) ==
    advance(setFixedFrom(w, fixedAsciiBytes(str, length), 0), length)

\* buffer.slice(0, fileEnd): slice stops at the end of the ArrayBuffer.
bufferSlice(buffer, fileEnd) ==
    LET end == Min(fileEnd, approximateSize)
    IN  IF end <= Len(buffer) THEN SubSeq(buffer, 1, end)
        ELSE buffer \o zeros(end - Len(buffer))

\* A faulty wordAligned: the pad byte is not counted.
wordAlignedUncounted(chunkSize) == chunkSize

\* chunkSize after the word-align (lines 416-420)
wordAligned(chunkSize) == IF chunkSize % 2 # 0 THEN chunkSize + 1 ELSE chunkSize

\* A faulty riffSizeOf: the whole file, the RIFF header's 8 bytes included.
riffSizeWholeFile(fileEnd) == fileEnd

\* const riffSize = fileEnd - 8;  (line 725)
riffSizeOf(fileEnd) == fileEnd - 8

\* ------------------------------------------------------------------------
\* State
\* ------------------------------------------------------------------------

VARIABLES
    script,           \* the calls of the encode in progress (Calls)
    pc,               \* the next call of script (1-based)
    at,               \* inside writeChunk's epilogue: where
    offset,           \* the write cursor
    buffer,           \* the written prefix of the ArrayBuffer
    chunks,           \* the writeChunk activations, innermost last
    totalSizeOffset,  \* where the RIFF length field is
    result,           \* the bytes of the returned Blob
    earlier           \* what the callers saw of the calls made before this one

vars == << data, allSamples, zoneDefs, status, script, pc, at, offset, buffer,
           chunks, totalSizeOffset, result, earlier >>

writerVars == << script, pc, at, offset, buffer, chunks, totalSizeOffset, result >>

Threw == status \in {"RangeError", "FourCC must be 4 chars"}
Ended == status = "returned" \/ Threw

cur == script[pc]
AtCall(op) == status = "writing" /\ at = "body" /\ pc <= Len(script) /\ cur.op = op

W == [buffer |-> buffer, offset |-> offset, thrown |-> ""]

\* The writer's state becomes w; the call in progress is done unless it threw.
Becomes(w) ==
    /\ buffer' = w.buffer
    /\ offset' = w.offset
    /\ IF w.thrown = ""
       THEN /\ pc' = pc + 1
            /\ UNCHANGED status
       ELSE /\ status' = w.thrown
            /\ UNCHANGED pc

\* ------------------------------------------------------------------------
\* createSf2File, step by step
\* ------------------------------------------------------------------------

\* 1) Convert user samples -> allSamples (line 369)
PrepareSamples ==
    /\ status = "called"
    /\ allSamples' = prepareSamples(data)
    /\ status' = "prepared"
    /\ UNCHANGED << data, zoneDefs, writerVars, earlier >>

\* 2) Build zones based on instrument type (lines 372-378)
BuildZones ==
    /\ status = "prepared"
    /\ zoneDefs' = buildZones(data, allSamples)
    /\ status' = "zoned"
    /\ UNCHANGED << data, allSamples, writerVars, earlier >>

\* A faulty AllocateBuffer: the cursor lives outside the call and is not
\* set back to 0.
AllocateBufferKeepCursor ==
    /\ status = "zoned"
    /\ buffer' = <<>>
    /\ script' = Calls(data, allSamples, zoneDefs)
    /\ pc' = 1
    /\ at' = "body"
    /\ chunks' = <<>>
    /\ status' = "writing"
    /\ UNCHANGED << data, allSamples, zoneDefs, offset, totalSizeOffset, result, earlier >>

\* 3) Write the SF2: the buffer and the cursor (lines 381-384)
AllocateBuffer ==
    /\ status = "zoned"
    /\ buffer' = <<>>
    /\ offset' = 0
    /\ script' = Calls(data, allSamples, zoneDefs)
    /\ pc' = 1
    /\ at' = "body"
    /\ chunks' = <<>>
    /\ status' = "writing"
    /\ UNCHANGED << data, allSamples, zoneDefs, totalSizeOffset, result, earlier >>

WriteUint8 ==
    /\ AtCall("writeUint8")
    /\ Becomes(writeUint8(W, cur.val))
    /\ UNCHANGED << data, allSamples, zoneDefs, script, at, chunks, totalSizeOffset,
                    result, earlier >>

WriteUint16 ==
    /\ AtCall("writeUint16")
    /\ Becomes(writeUint16(W, cur.val))
    /\ UNCHANGED << data, allSamples, zoneDefs, script, at, chunks, totalSizeOffset,
                    result, earlier >>

WriteUint32 ==
    /\ AtCall("writeUint32")
    /\ Becomes(writeUint32(W, cur.val))
    /\ UNCHANGED << data, allSamples, zoneDefs, script, at, chunks, totalSizeOffset,
                    result, earlier >>

WriteFourCC ==
    /\ AtCall("writeFourCC")
    /\ Becomes(writeFourCC(W, cur.str))
    /\ UNCHANGED << data, allSamples, zoneDefs, script, at, chunks, totalSizeOffset,
                    result, earlier >>

WriteFixedAsciiString ==
    /\ AtCall("writeFixedAsciiString")
    /\ Becomes(writeFixedAsciiString(W, cur.str, cur.val))
    /\ UNCHANGED << data, allSamples, zoneDefs, script, at, chunks, totalSizeOffset,
                    result, earlier >>

\* const totalSizeOffset = offset; writeUint32(0);  (lines 431-432)
ReserveTotalSize ==
    /\ AtCall("reserveTotalSize")
    /\ totalSizeOffset' = offset
    /\ Becomes(writeUint32(W, 0))
    /\ UNCHANGED << data, allSamples, zoneDefs, script, at, chunks, result, earlier >>

\* writeChunk up to the call of payloadFn (lines 406-409)
EnterChunk ==
    /\ AtCall("writeChunk")
    /\ LET w1 == writeFourCC(W, cur.str)
           w2 == writeUint32(w1, 0)
       IN  /\ Becomes(w2)
           /\ chunks' = IF w2.thrown = ""
                        THEN Append(chunks, [call |-> pc,
                                             sizeOffset |-> w1.offset,
                                             chunkStart |-> w2.offset,
                                             chunkSize |-> 0, savedPos |-> 0])
                        ELSE chunks
    /\ UNCHANGED << data, allSamples, zoneDefs, script, at, totalSizeOffset, result,
                    earlier >>

top == chunks[Len(chunks)]
setTop(field, val) == [chunks EXCEPT ![Len(chunks)][field] = val]

\* writeChunk after payloadFn returned: chunkSize and the word-align (lines 413-420)
WordAlign ==
    /\ AtCall("endChunk")
    /\ LET chunkSize == offset - top.chunkStart
           w == IF chunkSize % 2 # 0 THEN writeUint8(W, 0) ELSE W
       IN  /\ buffer' = w.buffer
           /\ offset' = w.offset
           /\ IF w.thrown = ""
              THEN /\ at' = "aligned"
                   /\ chunks' = setTop("chunkSize", wordAligned(chunkSize))
                   /\ UNCHANGED status
              ELSE /\ status' = w.thrown
                   /\ UNCHANGED << at, chunks >>
    /\ UNCHANGED << data, allSamples, zoneDefs, script, pc, totalSizeOffset, result, earlier >>

\* const savedPos = offset; offset = sizeOffset;  (lines 421-422)
SeekSizeField ==
    /\ status = "writing" /\ at = "aligned"
    /\ chunks' = setTop("savedPos", offset)
    /\ offset' = top.sizeOffset
    /\ at' = "seeked"
    /\ UNCHANGED << data, allSamples, zoneDefs, status, script, pc, buffer,
                    totalSizeOffset, result, earlier >>

\* A faulty BackpatchSize: the length is stored as five bytes.
BackpatchSizeWide ==
    /\ status = "writing" /\ at = "seeked"
    /\ LET w == setBytes(W, offset, uint32(top.chunkSize) \o <<0>>)
       IN  /\ buffer' = w.buffer
           /\ IF w.thrown = ""
              THEN at' = "patched" /\ UNCHANGED status
              ELSE status' = w.thrown /\ UNCHANGED at
    /\ UNCHANGED << data, allSamples, zoneDefs, script, pc, offset, chunks,
                    totalSizeOffset, result, earlier >>

\* view.setUint32(offset, chunkSize, true);  (line 423)
BackpatchSize ==
    /\ status = "writing" /\ at = "seeked"
    /\ LET w == setBytes(W, offset, uint32(top.chunkSize))
       IN  /\ buffer' = w.buffer
           /\ IF w.thrown = ""
              THEN at' = "patched" /\ UNCHANGED status
              ELSE status' = w.thrown /\ UNCHANGED at
    /\ UNCHANGED << data, allSamples, zoneDefs, script, pc, offset, chunks,
                    totalSizeOffset, result, earlier >>

\* A faulty RestoreCursor: writeChunk returns with the cursor left after the
\* length field it has just patched.
RestoreCursorAfterField ==
    /\ status = "writing" /\ at = "patched"
    /\ offset' = offset + 4
    /\ chunks' = SubSeq(chunks, 1, Len(chunks) - 1)
    /\ at' = "body"
    /\ pc' = pc + 1
    /\ UNCHANGED << data, allSamples, zoneDefs, status, script, buffer,
                    totalSizeOffset, result, earlier >>

\* offset = savedPos; and writeChunk returns  (line 424)
RestoreCursor ==
    /\ status = "writing" /\ at = "patched"
    /\ offset' = top.savedPos
    /\ chunks' = SubSeq(chunks, 1, Len(chunks) - 1)
    /\ at' = "body"
    /\ pc' = pc + 1
    /\ UNCHANGED << data, allSamples, zoneDefs, status, script, buffer,
                    totalSizeOffset, result, earlier >>

\* The RIFF length backpatch and the returned Blob (lines 724-731)
Return ==
    /\ AtCall("return")
    /\ LET fileEnd == offset
           riffSize == riffSizeOf(fileEnd)
           w == setBytes(W, totalSizeOffset, uint32(riffSize))
       IN  /\ buffer' = w.buffer
           /\ IF w.thrown = ""
              THEN /\ result' = bufferSlice(w.buffer, fileEnd)
                   /\ status' = "returned"
              ELSE /\ status' = w.thrown
                   /\ UNCHANGED result
    /\ UNCHANGED << data, allSamples, zoneDefs, script, pc, at, offset, chunks,
                    totalSizeOffset, earlier >>

\* ------------------------------------------------------------------------
\* Inputs
\* ------------------------------------------------------------------------

MaxFrames == 3        \* frames of a sample in the loop inputs
MaxSamples == 3       \* descriptors of a sample list in the zone inputs
MaxEncoded == 2       \* descriptors of a sample list that is encoded to bytes
MaxCalls == 3         \* createSf2File calls in a row
MaxCallerCalls == 6   \* calls a direct caller of the writer makes

Str_kick == <<107, 105, 99, 107>>                 \* 'kick'
Str_Snare == <<32, 83, 110, 97, 114, 101>>        \* ' Snare'
Str_closedhat == <<99, 108, 111, 115, 101, 100, 104, 97, 116>>   \* 'closedhat'
Str_a_b_L == <<97, 32, 98, 95, 76>>               \* 'a b_L'
Str_My_Font == <<77, 121, 32, 70, 111, 110, 116>> \* 'My Font'
Str_Me == <<77, 101>>                             \* 'Me'
\* 'A grand piano, sampled' (longer than 20 and than 17)
Str_long == <<65, 32, 103, 114, 97, 110, 100, 32, 112, 105, 97, 110, 111, 44, 32,
              115, 97, 109, 112, 108, 101, 100>>

\* n Float32 samples: 0.5, -1.0, just above 1.0, just below 0, ...
RawData(n) ==
    LET wave == << FloatOne \div 2, -FloatOne, FloatOne + 1, -1 >>
    IN  [i \in 1..n |-> wave[((i - 1) % 4) + 1]]

\* A sample descriptor of `frames` frames.  A 2-channel descriptor carries an
\* interleaved buffer of 2 * frames values, as create-sf2-from-wavs.mjs
\* builds it (lines 74-81).
Descriptor(name, channels, frames, rootNote, loopStart, loopEnd) ==
    [name |-> name, sampleRate |-> undefined, rootNote |-> rootNote,
     exclusiveClass |-> undefined, loopStart |-> loopStart, loopEnd |-> loopEnd,
     channels |-> channels,
     rawMonoData |-> IF channels = 2 THEN undefined ELSE Some(RawData(frames)),
     rawStereoData |-> IF channels = 2 THEN Some(RawData(2 * frames)) ELSE undefined,
     noteRange |-> undefined]

Request(name, author, isDrumKit, samples) ==
    [name |-> name, author |-> author, isDrumKit |-> isDrumKit, samples |-> samples]

SeqsUpTo(S, n) == UNION { [1..k -> S] : k \in 0..n }

\* Inputs that vary the loop bounds: one sample, every pair of bounds.
LoopBounds == {undefined} \cup { Some(k) : k \in -1..MaxFrames + 1 }
LoopInputs ==
    { Request(<<>>, <<>>, drum, << Descriptor(Str_kick, ch, n, undefined, ls, le) >>) :
        drum \in BOOLEAN, ch \in {1, 2}, n \in 0..MaxFrames,
        ls \in LoopBounds, le \in LoopBounds }

\* Inputs that vary the sample list: names, channels, root notes, order.
NamesAndRoots ==
    { << Str_kick, undefined >>, << Str_a_b_L, Some(40) >>,
      << <<>>, Some(70) >>, << Str_long, Some(41) >> }
ZoneDescriptors ==
    { Descriptor(nr[1], ch, 1, nr[2], IF ch = 1 THEN undefined ELSE Some(0),
                 IF ch = 1 THEN undefined ELSE Some(1)) :
        nr \in NamesAndRoots, ch \in {1, 2} }
ZoneInputs ==
    { Request(<<>>, <<>>, drum, samples) :
        drum \in BOOLEAN, samples \in SeqsUpTo(ZoneDescriptors, MaxSamples) }

\* Inputs that vary what the drum table is asked: one sample, names in and
\* out of the table, with and without a root note of its own.
DrumInputs ==
    { Request(<<>>, <<>>, drum,
              << Descriptor(name, ch, 1, root, undefined, undefined) >>) :
        drum \in BOOLEAN, ch \in {1, 2},
        name \in {Str_kick, Str_Snare, Str_closedhat, Str_a_b_L, <<>>},
        root \in {undefined, Some(0), Some(38)} }

PrepareInputs == LoopInputs \cup ZoneInputs \cup DrumInputs

\* Inputs that are encoded to bytes.
EncodedDescriptors ==
    { Descriptor(Str_kick, 1, 1, undefined, undefined, undefined),
      Descriptor(<<>>, 1, 0, Some(70), undefined, undefined),
      Descriptor(Str_Snare, 1, 3, Some(40), Some(1), Some(3)),
      Descriptor(Str_closedhat, 2, 2, undefined, Some(0), Some(2)) }
EncodedInputs ==
    { Request(<<>>, <<>>, drum, samples) :
        drum \in BOOLEAN, samples \in SeqsUpTo(EncodedDescriptors, MaxEncoded) }
    \cup
    { Request(name, author, drum, samples) :
        name \in {Str_My_Font, Str_long}, author \in {<<>>, Str_Me}, drum \in BOOLEAN,
        samples \in SeqsUpTo({Descriptor(Str_long, 2, 1, Some(60), Some(0), Some(1))}, 1) }

\* ------------------------------------------------------------------------
\* Specifications
\* ------------------------------------------------------------------------

Called(inputs) ==
    /\ data \in inputs
    /\ status = "called"
    /\ allSamples = <<>>
    /\ zoneDefs = <<>>
    /\ script = <<>>
    /\ pc = 1
    /\ at = "body"
    /\ offset = 0
    /\ buffer = <<>>
    /\ chunks = <<>>
    /\ totalSizeOffset = 0
    /\ result = <<>>
    /\ earlier = <<>>

\* createSf2File(data), once.
Init == Called(EncodedInputs)

Next ==
    \/ PrepareSamples
    \/ BuildZones
    \/ AllocateBuffer
    \/ WriteUint8
    \/ WriteUint16
    \/ WriteUint32
    \/ WriteFourCC
    \/ WriteFixedAsciiString
    \/ ReserveTotalSize
    \/ EnterChunk
    \/ WordAlign
    \/ SeekSizeField
    \/ BackpatchSize
    \/ RestoreCursor
    \/ Return

Spec == Init /\ [][Next]_vars

\* prepareSamples and the zone builders alone, on the wider inputs.
InitPrepare == Called(PrepareInputs)

NextPrepare ==
    \/ PrepareSamples
    \/ BuildZones

SpecPrepare == InitPrepare /\ [][NextPrepare]_vars

\* createSf2File up to its sample pool, on one mono sample whose
\* Float32Array holds up to MaxFloats values taken around -1.0, 0 and 1.0
\* and beyond: what float32ToInt16 is given and what it gives.
MaxFloats == 2

FloatValues ==
    { -2 * FloatOne, -FloatOne - 1, -FloatOne, -FloatOne + 1, -FloatOne + 2,
      -(FloatOne \div 2), -4, -3, -2, -1, 0, 1, 2, 3, 4, FloatOne \div 2,
      FloatOne - 3, FloatOne - 2, FloatOne - 1, FloatOne, FloatOne + 1, 2 * FloatOne }

FloatInputs ==
    { Request(<<>>, <<>>, FALSE,
              << [Descriptor(<<>>, 1, 0, undefined, undefined, undefined)
                    EXCEPT !.rawMonoData = Some(floats)] >>) :
        floats \in SeqsUpTo(FloatValues, MaxFloats) }

InitFloat == Called(FloatInputs)

NextFloat == PrepareSamples

SpecFloat == InitFloat /\ [][NextFloat]_vars

\* createSf2File called again and again by the same program.  A call's
\* locals die when it ends; the model's variables keep their last values
\* until the next call assigns them.
CallsInputs ==
    { Request(<<>>, <<>>, FALSE, <<>>),
      Request(Str_My_Font, Str_Me, TRUE,
              << Descriptor(Str_kick, 1, 1, undefined, undefined, undefined) >>),
      Request(<<>>, <<>>, FALSE,
              << Descriptor(Str_closedhat, 2, 2, undefined, Some(0), Some(2)),
                 Descriptor(Str_closedhat, 2, 2, undefined, Some(0), Some(2)) >>) }

\* What the caller got from the call that has ended.
Seen == [data |-> data, status |-> status,
         result |-> IF status = "returned" THEN result ELSE <<>>]

CallAgain ==
    /\ Ended
    /\ Len(earlier) + 1 < MaxCalls
    /\ earlier' = Append(earlier, Seen)
    /\ data' \in CallsInputs
    /\ status' = "called"
    /\ UNCHANGED << allSamples, zoneDefs, writerVars >>

InitCalls == Called(CallsInputs)

NextCalls ==
    \/ Next
    \/ CallAgain

SpecCalls == InitCalls /\ [][NextCalls]_vars

\* createSf2File called again on an input that differs from the last one in
\* its samples' noteRange only: two mono samples with root notes 40 and 70,
\* with and without the key ranges a caller may ask for.
RangeInputs ==
    { Request(<<>>, <<>>, drum,
              << [Descriptor(Str_kick, 1, 1, Some(40), undefined, undefined)
                    EXCEPT !.noteRange = ranges[1]],
                 [Descriptor(Str_Snare, 1, 1, Some(70), undefined, undefined)
                    EXCEPT !.noteRange = ranges[2]] >>) :
        drum \in BOOLEAN,
        ranges \in { << undefined, undefined >>,
                     << Some(<<0, 60>>), Some(<<61, 127>>) >>,
                     << Some(<<61, 127>>), Some(<<0, 60>>) >> } }

withoutNoteRange(d) ==
    [d EXCEPT !.samples = [k \in 1..Len(d.samples) |->
                              [d.samples[k] EXCEPT !.noteRange = undefined]]]

CallAgainOtherRange ==
    /\ Ended
    /\ Len(earlier) + 1 < MaxCalls
    /\ earlier' = Append(earlier, Seen)
    /\ data' \in { d \in RangeInputs : withoutNoteRange(d) = withoutNoteRange(data) }
    /\ status' = "called"
    /\ UNCHANGED << allSamples, zoneDefs, writerVars >>

InitRanges == Called(RangeInputs)

NextRanges ==
    \/ Next
    \/ CallAgainOtherRange

SpecRanges == InitRanges /\ [][NextRanges]_vars

\* The writer closures driven directly: a caller makes any calls it likes,
\* one after another, nesting writeChunk as it likes.  script records the
\* calls made so far.
CallerAlphabet ==
    { writeUint8Call(255), writeUint16Call(-500), writeUint32Call(-1),
      writeFourCCCall(Str_sdta), writeFixedCall(Str_kick),
      Call("writeChunk", 0, Str_smpl), Call("writeChunk", 0, Str_EOS),
      Call("writeChunk", 0, Str_Empty), writeFourCCCall(Str_EOI),
      Call("endChunk", 0, <<>>), Call("return", 0, <<>>) }

CallerCalls ==
    /\ status = "writing" /\ at = "body"
    /\ pc = Len(script) + 1
    /\ Len(script) < MaxCallerCalls
    /\ \E c \in CallerAlphabet :
          /\ c.op = "endChunk" => chunks # <<>>
          /\ c.op = "return" => chunks = <<>>
          /\ script' = Append(script, c)
    /\ UNCHANGED << data, allSamples, zoneDefs, status, pc, at, offset, buffer, chunks,
                    totalSizeOffset, result, earlier >>

InitWriter ==
    /\ data = Request(<<>>, <<>>, FALSE, <<>>)
    /\ status = "writing"
    /\ allSamples = <<>>
    /\ zoneDefs = <<>>
    /\ script = <<>>
    /\ pc = 1
    /\ at = "body"
    /\ offset = 0
    /\ buffer = <<>>
    /\ chunks = <<>>
    /\ totalSizeOffset = 0
    /\ result = <<>>
    /\ earlier = <<>>

NextWriter ==
    \/ CallerCalls
    \/ WriteUint8
    \/ WriteUint16
    \/ WriteUint32
    \/ WriteFourCC
    \/ WriteFixedAsciiString
    \/ EnterChunk
    \/ WordAlign
    \/ SeekSizeField
    \/ BackpatchSize
    \/ RestoreCursor
    \/ Return

SpecWriter == InitWriter /\ [][NextWriter]_vars

\* writeChunk under both of its callers: createSf2File and a direct caller.
InitChunks == Init \/ InitWriter

NextChunks ==
    \/ Next
    \/ CallerCalls

SpecChunks == InitChunks /\ [][NextChunks]_vars

\* ------------------------------------------------------------------------
\* Properties
\* ------------------------------------------------------------------------

\* bytes[at .. at+3] (0-based) is the little-endian uint32 val.  (The field
\* is compared with val's encoding instead of being decoded, so that a field
\* of 0x80000000 and above is a value like any other.)
HoldsUint32(bytes, pos, val) ==
    /\ val >= 0
    /\ pos >= 0 /\ pos + 4 <= Len(bytes)
    /\ SubSeq(bytes, pos + 1, pos + 4) = uint32(val)

\* C1: whenever createSf2File returns, the 32-bit little-endian value at
\* byte offset 4 of the returned bytes is the number of returned bytes
\* minus 8.
C1_RiffLength ==
    status = "returned" => HoldsUint32(result, 4, Len(result) - 8)

\* A font of a stereo sample and a mono sample has been returned.
C1_Witness ==
    /\ status = "returned"
    /\ Len(allSamples) >= 3
    /\ \E i \in 1..Len(allSamples) : allSamples[i].sampleType = 4
    /\ Len(result) > 8

\* The zones whose key range holds note.
ZonesOver(note) ==
    { i \in 1..Len(zoneDefs) : zoneDefs[i].keyLo <= note /\ note <= zoneDefs[i].keyHi }

\* The pool record zone i plays.
ZoneSample(i) == allSamples[zoneDefs[i].sampleID + 1]

Melodic == status = "zoned" /\ ~data.isDrumKit

\* C2, as stated: in melodic mode, for every sample list (mono, stereo or
\* a mix), every note 0..127 lies in the key range of exactly one zone.
C2_AsStated ==
    Melodic => \A note \in 0..127 : Cardinality(ZonesOver(note)) = 1

\* C2, amended: in melodic mode every note 0..127 lies in the key range of
\* exactly one zone that does not play a right-channel record, and a zone
\* that plays a right-channel record comes right after the zone of its left
\* record and has that zone's key range.
C2_PartitionButCompanions ==
    Melodic =>
        /\ \A note \in 0..127 :
               Cardinality({ i \in ZonesOver(note) : ZoneSample(i).sampleType # 2 }) = 1
        /\ \A i \in 1..Len(zoneDefs) :
               /\ 0 <= zoneDefs[i].keyLo
               /\ zoneDefs[i].keyLo <= zoneDefs[i].keyHi
               /\ zoneDefs[i].keyHi <= 127
               /\ ZoneSample(i).sampleType = 2 =>
                      /\ i > 1
                      /\ ZoneSample(i - 1).sampleType = 4
                      /\ ZoneSample(i - 1).sampleLink = zoneDefs[i].sampleID
                      /\ zoneDefs[i - 1].keyLo = zoneDefs[i].keyLo
                      /\ zoneDefs[i - 1].keyHi = zoneDefs[i].keyHi

\* Melodic zones of a mix: a stereo sample and a mono sample each got notes.
C2_Witness ==
    /\ Melodic
    /\ \E i, j, k \in 1..Len(zoneDefs) :
          /\ ZoneSample(i).sampleType = 4
          /\ ZoneSample(j).sampleType = 2
          /\ ZoneSample(k).sampleType = 1

Prepared == status \in {"prepared", "zoned"}

\* The pool's record of 0-based index i.
pool(i) == allSamples[i + 1]

\* C3: in the pool prepareSamples returns, every record i of a 2-channel
\* descriptor has pool[pool[i].sampleLink].sampleLink = i and its partner is
\* the adjacent record of the other role (left, type 4, at k; right, type 2,
\* at k+1); every mono record has sampleLink 0; a left record is always
\* followed at once by its right record.
C3_StereoLinks ==
    Prepared =>
        \A i \in 0..Len(allSamples) - 1 :
            /\ pool(i).channels = 2 =>
                   /\ pool(i).sampleType \in {2, 4}
                   /\ pool(i).sampleLink \in 0..Len(allSamples) - 1
                   /\ pool(pool(i).sampleLink).sampleLink = i
                   /\ pool(pool(i).sampleLink).channels = 2
                   /\ pool(i).sampleType = 4 =>
                          /\ pool(i).sampleLink = i + 1
                          /\ pool(i + 1).sampleType = 2
                   /\ pool(i).sampleType = 2 =>
                          /\ pool(i).sampleLink = i - 1
                          /\ pool(i - 1).sampleType = 4
            /\ pool(i).channels # 2 =>
                   /\ pool(i).sampleType = 1
                   /\ pool(i).sampleLink = 0
            /\ pool(i).sampleType = 4 =>
                   /\ i + 1 <= Len(allSamples) - 1
                   /\ pool(i + 1).sampleType = 2
                   /\ pool(i + 1).channels = 2

\* A pool of a mono record, then two stereo pairs one after the other.
C3_Witness ==
    /\ Prepared
    /\ Len(allSamples) = 5
    /\ pool(0).sampleType = 1
    /\ pool(1).sampleType = 4 /\ pool(2).sampleType = 2
    /\ pool(3).sampleType = 4 /\ pool(4).sampleType = 2
    /\ pool(1).name = pool(3).name

\* Reading the returned bytes as RIFF.  A chunk at byte pos is its tag (4
\* bytes), its length (uint32) and that many payload bytes.
TagAt(bytes, pos) == SubSeq(bytes, pos + 1, pos + 4)
Uint32At(bytes, pos) ==
    bytes[pos + 1] + 256 * bytes[pos + 2] + 65536 * bytes[pos + 3]
        + 16777216 * bytes[pos + 4]
Uint16At(bytes, pos) == bytes[pos + 1] + 256 * bytes[pos + 2]

\* Where the payload of the first chunk tagged `tag` starts, among the
\* chunks laid out from pos up to end; -1 if there is none.  For tag LIST
\* the chunk must also have the list type `type`, and the result is where
\* its sub-chunks start.
RECURSIVE FindChunk(_, _, _, _, _)
FindChunk(bytes, pos, end, tag, type) ==
    IF pos + 8 > end THEN -1
    ELSE IF /\ TagAt(bytes, pos) = tag
            /\ tag = Str_LIST => (pos + 12 <= end /\ TagAt(bytes, pos + 8) = type)
         THEN IF tag = Str_LIST THEN pos + 12 ELSE pos + 8
         ELSE FindChunk(bytes, pos + 8 + Uint32At(bytes, pos + 4), end, tag, type)

\* Where the payload of sub-chunk `tag` of the top-level LIST `type` starts.
SubChunk(bytes, type, tag) ==
    LET list == FindChunk(bytes, 12, Len(bytes), Str_LIST, type)
    IN  IF list < 0 THEN -1
        ELSE FindChunk(bytes, list, list - 4 + Uint32At(bytes, list - 8), tag, <<>>)

\* Where the sample header of pool record i (0-based) starts in result.
HeaderOf(i) == SubChunk(result, Str_pdta, Str_shdr) + 46 * i

\* The sum over the pool records j before i of frameCount_j + 46.
RECURSIVE PoolOffset(_)
PoolOffset(i) == IF i = 0 THEN 0 ELSE PoolOffset(i - 1) + Len(pool(i - 1).pcm16) + 46

\* C4: in the returned bytes, the sample header of every pool record i has
\* the start field S = the sum over the earlier records j of
\* (frameCount_j + 46), the loop-start field S + loopStart_i and the
\* loop-end field S + loopEnd_i.
C4_HeaderLoops ==
    status = "returned" =>
        /\ SubChunk(result, Str_pdta, Str_shdr) >= 0
        /\ \A i \in 0..Len(allSamples) - 1 :
               /\ HoldsUint32(result, HeaderOf(i) + 20, PoolOffset(i))
               /\ HoldsUint32(result, HeaderOf(i) + 28, PoolOffset(i) + pool(i).loopStart)
               /\ HoldsUint32(result, HeaderOf(i) + 32, PoolOffset(i) + pool(i).loopEnd)

\* What the callers have seen so far, the call that has just ended included.
SeenSoFar == Append(earlier, Seen)

\* C5: two createSf2File calls on equal inputs end the same way and return
\* the same bytes, whatever calls were made before or between them.
C5_Deterministic ==
    Ended =>
        \A i, j \in 1..Len(SeenSoFar) :
            SeenSoFar[i].data = SeenSoFar[j].data => SeenSoFar[i] = SeenSoFar[j]

\* A call has returned bytes for the input of the first call, after a call
\* on another input that returned and before which the buffer was used.
C5_Witness ==
    /\ status = "returned"
    /\ Len(result) > 8
    /\ Len(earlier) = 2
    /\ earlier[1].data = data
    /\ earlier[2].data # data
    /\ earlier[2].status = "returned"

\* C6: every record prepareSamples produces, for every input (the
\* placeholder of the empty input, zero-frame buffers and missing or invalid
\* loop bounds included), has 0 <= loopStart < loopEnd <= frameCount, where
\* frameCount is the length of its PCM payload.
C6_LoopWithinSample ==
    Prepared =>
        \A i \in 0..Len(allSamples) - 1 :
            /\ 0 <= pool(i).loopStart
            /\ pool(i).loopStart < pool(i).loopEnd
            /\ pool(i).loopEnd <= Len(pool(i).pcm16)

\* For each pool record in order, the index in data.samples of the
\* descriptor it came from (descriptors k, k+1, ...).
RECURSIVE OwnersFrom(_)
OwnersFrom(k) ==
    IF k > Len(data.samples) THEN <<>>
    ELSE (IF data.samples[k].channels = 2 THEN <<k, k>> ELSE <<k>>) \o OwnersFrom(k + 1)

PadStep ==
    (AtCall("endChunk") /\ at' = "aligned") =>
        LET payload == offset - top.chunkStart
        IN  /\ offset' = offset + (payload % 2)
            /\ payload % 2 = 1 => (Len(buffer') >= offset' /\ buffer'[offset'] = 0)
            /\ chunks'[Len(chunks)].chunkSize = offset' - top.chunkStart

\* The step in which writeChunk returns: the length field holds the bytes
\* from its own end to the cursor, an even number that is the padded payload.
ReturnStep ==
    (at = "patched" /\ at' = "body") =>
        LET size == offset' - (top.sizeOffset + 4)
        IN  /\ HoldsUint32(buffer', top.sizeOffset, size)
            /\ size % 2 = 0
            /\ size = top.chunkSize
            /\ TagAt(buffer', top.sizeOffset - 4) = script[top.call].str
            /\ (top.sizeOffset - 4) % 2 = 0 => offset' % 2 = 0

\* C8: when a writeChunk call returns, at any nesting depth, its length
\* field holds the number of bytes from the end of that field to the cursor
\* (the payload, plus one zero pad byte when the payload is odd): an even
\* number that leaves out the chunk's 8 header bytes and counts the nested
\* chunks with their headers.  Hence every chunk createSf2File writes starts
\* at an even offset.
C8_ChunkLength ==
    [][/\ PadStep
       /\ ReturnStep
       /\ (allSamples # <<>> /\ AtCall("writeChunk")) => offset % 2 = 0]_vars

\* A chunk nested in two others, with a payload of one byte, is about to
\* return with its length patched.
C8_Witness ==
    /\ at = "patched"
    /\ Len(chunks) = 3
    /\ script[pc - 1].op = "writeUint8"
    /\ top.chunkSize = 2
    /\ top.sizeOffset % 2 = 1

\* The bytes the call at the cursor appends (a chunk's pad byte included).
CallWidth ==
    CASE cur.op = "writeUint8" -> 1
      [] cur.op = "writeUint16" -> 2
      [] cur.op \in {"writeUint32", "writeFourCC", "reserveTotalSize"} -> 4
      [] cur.op = "writeFixedAsciiString" -> cur.val
      [] cur.op = "writeChunk" -> 8
      [] cur.op = "endChunk" -> (offset - top.chunkStart) % 2
      [] OTHER -> 0

\* C9: if the output needs more bytes than the buffer holds, createSf2File
\* ends with an error and returns nothing: a call whose bytes do not fit
\* raises the error, a call whose bytes fit appends them and leaves the
\* bytes before the cursor alone, and the returned bytes are all the bytes
\* of all the calls, within the buffer.
C9_NoSilentOverflow ==
    [][/\ (status = "writing" /\ at = "body") =>
              IF offset + CallWidth > approximateSize
              THEN status' = "RangeError"
              ELSE /\ status' # "RangeError"
                   /\ cur.op # "return" =>
                          /\ offset' = offset + CallWidth
                          /\ Len(buffer') = offset'
                          /\ SubSeq(buffer', 1, offset) = buffer
       /\ offset' <= approximateSize
       /\ Len(buffer') <= approximateSize
       /\ status' = "RangeError" => result' = <<>>
       /\ status = "RangeError" => FALSE
       /\ status' = "returned" =>
              /\ pc = Len(script)
              /\ chunks = <<>>
              /\ Len(result') = offset
              /\ result' = buffer']_vars

\* The encode has ended with the error inside a chunk, the cursor near the
\* end of the buffer, calls left to make and nothing returned.
C9_Witness ==
    /\ status = "RangeError"
    /\ offset + CallWidth > approximateSize
    /\ offset > approximateSize - 20
    /\ chunks # <<>>
    /\ pc < Len(script)
    /\ result = <<>>

\* The call at the cursor emits a tag that is not 4 characters long.
BadTag ==
    /\ status = "writing" /\ at = "body" /\ pc <= Len(script)
    /\ cur.op \in {"writeChunk", "writeFourCC"}
    /\ Len(cur.str) # 4

\* C10: emitting a tag that is not exactly 4 characters fails at once: the
\* error is raised with no byte written and the cursor where it was, no
\* chunk is opened, nothing runs after the error (the payload producer is
\* never invoked) and no output is returned.
C10_BadTagFailsFast ==
    [][/\ BadTag =>
              /\ status' = "FourCC must be 4 chars"
              /\ buffer' = buffer
              /\ offset' = offset
              /\ chunks' = chunks
              /\ pc' = pc
              /\ result' = <<>>
       /\ status' = "FourCC must be 4 chars" => (BadTag /\ result' = <<>>)
       /\ status = "FourCC must be 4 chars" => FALSE]_vars

\* writeChunk was called with a 3-character tag inside another chunk, after
\* bytes had been written, and the error was raised.
C10_Witness ==
    /\ status = "FourCC must be 4 chars"
    /\ cur.op = "writeChunk"
    /\ Len(cur.str) = 3
    /\ chunks # <<>>
    /\ offset > top.chunkStart
    /\ result = <<>>

\* The chunks laid out from pos on end exactly at end, each of even length.
RECURSIVE ChunksTile(_, _, _)
ChunksTile(bytes, pos, end) ==
    IF pos = end THEN TRUE
    ELSE /\ pos + 8 <= end
         /\ Uint32At(bytes, pos + 4) % 2 = 0
         /\ pos + 8 + Uint32At(bytes, pos + 4) <= end
         /\ ChunksTile(bytes, pos + 8 + Uint32At(bytes, pos + 4), end)

\* The length field of the chunk whose payload starts at payload.
ChunkSize(bytes, payload) == Uint32At(bytes, payload - 4)

\* The top-level LIST `type` is there and its sub-chunks fill it exactly.
ListTiles(bytes, type) ==
    LET list == FindChunk(bytes, 12, Len(bytes), Str_LIST, type)
    IN  /\ list >= 0
        /\ ChunksTile(bytes, list, list - 4 + Uint32At(bytes, list - 8))

\* bytes is a RIFF 'sfbk' file: the RIFF header with the right length, then
\* chunks that fill the file exactly, among them the LISTs INFO, sdta and
\* pdta, whose sub-chunks fill them exactly, with smpl and shdr there.
WellFormed(bytes) ==
    /\ Len(bytes) >= 12
    /\ TagAt(bytes, 0) = Str_RIFF
    /\ HoldsUint32(bytes, 4, Len(bytes) - 8)
    /\ TagAt(bytes, 8) = Str_sfbk
    /\ ChunksTile(bytes, 12, Len(bytes))
    /\ ListTiles(bytes, Str_INFO)
    /\ ListTiles(bytes, Str_sdta)
    /\ ListTiles(bytes, Str_pdta)
    /\ SubChunk(bytes, Str_sdta, Str_smpl) >= 0
    /\ SubChunk(bytes, Str_pdta, Str_shdr) >= 0

\* C11: with no samples, in either mode, createSf2File raises no error and
\* returns a well-formed file of more than 44 bytes whose pool is one silent
\* record: smpl holds that record's zero frames and its guard frames, shdr
\* holds one sample header and the terminal record.
C11_EmptyInput ==
    data.samples = <<>> =>
        /\ ~Threw
        /\ Prepared => (Len(allSamples) = 1
                         /\ \A i \in 1..Len(pool(0).pcm16) : pool(0).pcm16[i] = 0)
        /\ status = "returned" =>
               LET smpl == SubChunk(result, Str_sdta, Str_smpl)
                   shdr == SubChunk(result, Str_pdta, Str_shdr)
               IN  /\ WellFormed(result)
                   /\ Len(result) > 44
                   /\ Len(allSamples) = 1
                   /\ ChunkSize(result, shdr) = 46 * 2
                   /\ ChunkSize(result, smpl) = 2 * (Len(pool(0).pcm16) + 46)
                   /\ \A i \in smpl + 1..smpl + ChunkSize(result, smpl) : result[i] = 0
                   /\ TagAt(result, shdr + 46) = SubSeq(Str_EOS \o <<0>>, 1, 4)

\* A drum kit with a name and no samples has been returned.
C11_Witness ==
    /\ status = "returned"
    /\ data.samples = <<>>
    /\ data.isDrumKit
    /\ data.name # <<>>
    /\ Len(result) > 44

\* Record m (0-based) is the lowest-index record of the pool among those
\* whose root note is nearest to note.
LowestNearest(m, note) ==
    /\ m \in 0..Len(allSamples) - 1
    /\ \A j \in 0..Len(allSamples) - 1 :
           /\ Abs(note - pool(m).rootNote) <= Abs(note - pool(j).rootNote)
           /\ j < m => Abs(note - pool(m).rootNote) < Abs(note - pool(j).rootNote)

\* The input is two mono samples with root notes 40 and 70, in this order.
Roots40Then70 ==
    /\ Len(data.samples) = 2
    /\ data.samples[1].channels = 1 /\ data.samples[1].rootNote = Some(40)
    /\ data.samples[2].channels = 1 /\ data.samples[2].rootNote = Some(70)

\* C12: buildNoteToSampleIndex maps every note 0..127 to the lowest-index
\* record among those nearest to it in root note, and the melodic zones
\* follow that map; so two mono samples with roots 40 then 70 give exactly
\* the zones 0..55 of the first and 56..127 of the second.
C12_NearestFirstWins ==
    /\ Prepared =>
           \A note \in 0..127 :
               LowestNearest(buildNoteToSampleIndex(allSamples)[note], note)
    /\ Melodic =>
           \A note \in 0..127 :
               \E i \in ZonesOver(note) : LowestNearest(zoneDefs[i].sampleID, note)
    /\ (Melodic /\ Roots40Then70) =>
           /\ Len(zoneDefs) = 2
           /\ zoneDefs[1].keyLo = 0 /\ zoneDefs[1].keyHi = 55
           /\ zoneDefs[1].sampleID = 0
           /\ zoneDefs[2].keyLo = 56 /\ zoneDefs[2].keyHi = 127
           /\ zoneDefs[2].sampleID = 1

\* The zones of two mono samples with roots 40 then 70 have been built;
\* note 55 is as far from 40 as from 70.
C12_Witness ==
    /\ Melodic
    /\ Roots40Then70
    /\ Abs(55 - pool(0).rootNote) = Abs(55 - pool(1).rootNote)
    /\ Len(zoneDefs) = 2

Str_snare == <<115, 110, 97, 114, 101>>    \* 'snare'

\* The descriptor pool record i came from.
OwnerOf(i) == data.samples[OwnersFrom(1)[i + 1]]

\* The name prepareSamples gives a descriptor: its own, or sample_<index>.
GivenName(i) ==
    IF OwnerOf(i).name # <<>> THEN OwnerOf(i).name
    ELSE Str_sample_ \o DecimalString(OwnersFrom(1)[i + 1] - 1)

\* The root notes of the drum table's entries for a lower-cased, trimmed name.
TableRoots(name) ==
    { Val(GM_DRUM_MAP_DEFAULTS[k].rootNote) :
        k \in { j \in 1..Len(GM_DRUM_MAP_DEFAULTS) :
                   GM_DRUM_MAP_DEFAULTS[j].key = trim(toLowerCase(name)) } }

Drum == data.isDrumKit /\ data.samples # <<>>

\* C13: in drum-kit mode a record's root note is its descriptor's rootNote
\* when it has one, else the root note of the drum table's entry for the
\* lower-cased, trimmed name (kick 36, snare 38), else 60; and every sample
\* yields a zone with keyLo = keyHi = that root note.
C13_DrumRootNote ==
    /\ TableRoots(Str_kick) = {36}
    /\ TableRoots(Str_snare) = {38}
    /\ TableRoots(Str_Snare) = {38}
    /\ (Prepared /\ Drum) =>
           \A i \in 0..Len(allSamples) - 1 :
               IF IsDefined(OwnerOf(i).rootNote)
               THEN pool(i).rootNote = Val(OwnerOf(i).rootNote)
               ELSE IF TableRoots(GivenName(i)) # {}
                    THEN pool(i).rootNote \in TableRoots(GivenName(i))
                    ELSE pool(i).rootNote = 60
    /\ (status = "zoned" /\ Drum) =>
           \A i \in 0..Len(allSamples) - 1 :
               \E z \in 1..Len(zoneDefs) :
                   /\ zoneDefs[z].sampleID = i
                   /\ zoneDefs[z].keyLo = pool(i).rootNote
                   /\ zoneDefs[z].keyHi = pool(i).rootNote

\* A drum kit's sample named ' Snare', without a root note of its own, got
\* root note 38 and a zone on key 38.
C13_Witness ==
    /\ status = "zoned"
    /\ Drum
    /\ data.samples[1].name = Str_Snare
    /\ data.samples[1].rootNote = undefined
    /\ pool(0).rootNote = 38
    /\ zoneDefs[1].keyLo = 38 /\ zoneDefs[1].keyHi = 38

\* C14: in the returned bytes, for every input (an empty sample list
\* included), the original-pitch byte of every sample header but the
\* terminal one is 255 in drum-kit mode and the record's rootNote otherwise.
C14_OriginalPitch ==
    status = "returned" =>
        \A i \in 0..Len(allSamples) - 1 :
            result[HeaderOf(i) + 40 + 1] = IF data.isDrumKit THEN 255 ELSE pool(i).rootNote

\* Zones y and z play the left and the right record of one stereo pair.
HalvesOfOnePair(y, z) ==
    /\ ZoneSample(y).sampleType = 4
    /\ ZoneSample(z).sampleType = 2
    /\ ZoneSample(y).sampleLink = zoneDefs[z].sampleID
    /\ ZoneSample(z).sampleLink = zoneDefs[y].sampleID

\* C15: in drum-kit mode every zone has keyLo = keyHi, and two zones have
\* the same key only if they are the left and right halves of one stereo
\* pair, for every sample list (several samples with one root note
\* included).
C15_DrumKeysDistinct ==
    (status = "zoned" /\ data.isDrumKit) =>
        /\ \A z \in 1..Len(zoneDefs) : zoneDefs[z].keyLo = zoneDefs[z].keyHi
        /\ \A y, z \in 1..Len(zoneDefs) :
               (y # z /\ zoneDefs[y].keyLo = zoneDefs[z].keyLo) =>
                   (HalvesOfOnePair(y, z) \/ HalvesOfOnePair(z, y))

\* Zone z is the companion of zone y: it has y's key range, plays the right
\* record y's left record links to, and is panned right.
CompanionOf(z, y) ==
    /\ zoneDefs[z].keyLo = zoneDefs[y].keyLo
    /\ zoneDefs[z].keyHi = zoneDefs[y].keyHi
    /\ zoneDefs[z].sampleID = ZoneSample(y).sampleLink
    /\ ZoneSample(z).sampleType = 2
    /\ zoneDefs[z].pan = 500

\* C16: in both modes a zone of a mono record has pan 0; a zone of a left
\* record has pan -500 and the next zone is its companion (same keyLo and
\* keyHi, the linked right record, pan +500); a zone plays a right record
\* only as such a companion.
C16_PanAndCompanions ==
    status = "zoned" =>
        \A z \in 1..Len(zoneDefs) :
            /\ ZoneSample(z).sampleType = 1 => zoneDefs[z].pan = 0
            /\ ZoneSample(z).sampleType = 4 =>
                   /\ zoneDefs[z].pan = -500
                   /\ z + 1 <= Len(zoneDefs)
                   /\ CompanionOf(z + 1, z)
            /\ ZoneSample(z).sampleType = 2 =>
                   /\ z > 1
                   /\ ZoneSample(z - 1).sampleType = 4
                   /\ CompanionOf(z, z - 1)

\* A drum kit's zones: a mono sample's, then a stereo sample's two.
C16_Witness ==
    /\ status = "zoned"
    /\ data.isDrumKit
    /\ Len(zoneDefs) = 3
    /\ ZoneSample(1).sampleType = 1
    /\ ZoneSample(2).sampleType = 4
    /\ ZoneSample(3).sampleType = 2
    /\ zoneDefs[3].pan = 500

\* Frame f (0-based) of the smpl payload of result, as its two bytes.
FrameAt(f) ==
    LET smpl == SubChunk(result, Str_sdta, Str_smpl)
    IN  SubSeq(result, smpl + 2 * f + 1, smpl + 2 * f + 2)

\* C17: the smpl payload is, record by record in pool order, the record's
\* frames and then 46 zero frames, 2 * sum(frameCount + 46) bytes in all;
\* header i has start = sum over j < i of (frameCount_j + 46) and end =
\* start + frameCount_i; so the regions [start, end) are disjoint and lie
\* inside the payload, and the output is larger than the PCM data in it.
C17_SamplePool ==
    status = "returned" =>
        LET smpl == SubChunk(result, Str_sdta, Str_smpl)
            n == Len(allSamples)
        IN  /\ smpl >= 0
            /\ ChunkSize(result, smpl) = 2 * PoolOffset(n)
            /\ \A i \in 0..n - 1 :
                   LET frameCount == Len(pool(i).pcm16)
                   IN  /\ \A k \in 1..frameCount :
                              FrameAt(PoolOffset(i) + k - 1) = uint16(pool(i).pcm16[k])
                       /\ \A k \in 1..46 :
                              FrameAt(PoolOffset(i) + frameCount + k - 1) = <<0, 0>>
                       /\ HoldsUint32(result, HeaderOf(i) + 20, PoolOffset(i))
                       /\ HoldsUint32(result, HeaderOf(i) + 24, PoolOffset(i) + frameCount)
                       /\ 2 * Uint32At(result, HeaderOf(i) + 24) <= ChunkSize(result, smpl)
            /\ \A i, j \in 0..n - 1 :
                   i < j => Uint32At(result, HeaderOf(i) + 24)
                                <= Uint32At(result, HeaderOf(j) + 20)
            /\ Len(result) > 2 * (PoolOffset(n) - 46 * n)

\* Two samples of three frames and one frame have been returned.
C17_Witness ==
    /\ status = "returned"
    /\ Len(allSamples) = 2
    /\ Len(pool(0).pcm16) = 3
    /\ Len(pool(1).pcm16) = 1
    /\ pool(0).pcm16[1] # 0
    /\ Uint32At(result, HeaderOf(1) + 20) = 49

\* The tags of the chunks laid out from pos up to end, in order.
RECURSIVE ChunkTags(_, _, _)
ChunkTags(bytes, pos, end) ==
    IF pos + 8 > end THEN <<>>
    ELSE << TagAt(bytes, pos) >>
         \o ChunkTags(bytes, pos + 8 + Uint32At(bytes, pos + 4), end)

\* The tags of the sub-chunks of the top-level LIST `type`, in order.
ListTags(bytes, type) ==
    LET list == FindChunk(bytes, 12, Len(bytes), Str_LIST, type)
    IN  ChunkTags(bytes, list, list - 4 + Uint32At(bytes, list - 8))

\* The payload of sub-chunk `tag` of LIST `type` is str, a zero byte and,
\* to an even length, one more zero byte.
HoldsString(bytes, type, tag, str) ==
    LET payload == SubChunk(bytes, type, tag)
        padded == str \o (IF Len(str) % 2 = 1 THEN <<0>> ELSE <<0, 0>>)
    IN  /\ payload >= 0
        /\ ChunkSize(bytes, payload) = Len(padded)
        /\ SubSeq(bytes, payload + 1, payload + Len(padded)) = padded

\* C18, as stated: the IENG record is in the INFO list only if the caller
\* supplies an author; without one the INFO list holds only the version,
\* engine-name and instrument-name records.
C18_AsStated ==
    (status = "returned" /\ data.author = <<>>) =>
        ListTags(result, Str_INFO) = << Str_ifil, Str_isng, Str_INAM >>

\* C18, amended: the INFO list always holds the version, engine-name,
\* instrument-name and IENG records, in this order; the IENG string is the
\* caller's author when one is supplied and 'sf2create' otherwise.
C18_AuthorOrDefault ==
    status = "returned" =>
        /\ ListTags(result, Str_INFO) = << Str_ifil, Str_isng, Str_INAM, Str_IENG >>
        /\ HoldsString(result, Str_INFO, Str_IENG,
                       IF data.author # <<>> THEN data.author ELSE Str_sf2create)

\* A file has been returned for a caller that supplied no author.
C18_Witness ==
    /\ status = "returned"
    /\ data.author = <<>>
    /\ data.name # <<>>
    /\ HoldsString(result, Str_INFO, Str_IENG, Str_sf2create)

\* The records of ibag and igen in the returned file, numbered from 0: a bag
\* is wGenNdx, wModNdx and a generator is its operator and its amount, two
\* 16-bit words each.
BagCount == ChunkSize(result, SubChunk(result, Str_pdta, Str_ibag)) \div 4

GenCount == ChunkSize(result, SubChunk(result, Str_pdta, Str_igen)) \div 4

genNdx(k) == Uint16At(result, SubChunk(result, Str_pdta, Str_ibag) + 4 * k)

modNdx(k) == Uint16At(result, SubChunk(result, Str_pdta, Str_ibag) + 4 * k + 2)

genOper(j) == Uint16At(result, SubChunk(result, Str_pdta, Str_igen) + 4 * j)

genAmount(j) == Uint16At(result, SubChunk(result, Str_pdta, Str_igen) + 4 * j + 2)

\* The generators that open a zone: those of the key-range operator.
KeyRanges == { j \in 0..(GenCount - 1) : genOper(j) = 43 }

\* The generator that opens zone k (k from 1), and the one that closes the
\* zone opened at j: the first sample-reference generator from j on.
KeyRangeOf(k) ==
    CHOOSE j \in KeyRanges : Cardinality({ i \in KeyRanges : i < j }) = k - 1

SampleRefFrom(j) ==
    CHOOSE i \in j..(GenCount - 1) :
        /\ genOper(i) = 53
        /\ \A h \in j..(i - 1) : genOper(h) # 53

\* The number of generators written for bag k: for the global bag (k = 0)
\* those before the first zone, for the bag of zone k those from its
\* key range to its sample reference.
GensWritten(k) ==
    IF k = 0 THEN KeyRangeOf(1)
    ELSE SampleRefFrom(KeyRangeOf(k)) - KeyRangeOf(k) + 1

\* C19: the instrument bags and the instrument generators agree, in both
\* modes: there is a bag for the global zone, one per zone and a terminal
\* one; for each bag k but the terminal one the number of generators written
\* for it in igen is ibag[k+1].genNdx - ibag[k].genNdx; the terminal bag's
\* index is the number of generators before the terminal all-zero one.
C19_BagsAndGenerators ==
    status = "returned" =>
        /\ BagCount = Len(zoneDefs) + 2
        /\ Cardinality(KeyRanges) = Len(zoneDefs)
        /\ genNdx(0) = 0
        /\ GensWritten(0) = (IF data.isDrumKit THEN 2 ELSE 0)
        /\ \A k \in 0..Len(zoneDefs) : genNdx(k + 1) - genNdx(k) = GensWritten(k)
        /\ \A k \in 1..Len(zoneDefs) : genNdx(k) = KeyRangeOf(k)
        /\ genNdx(BagCount - 1) = GenCount - 1
        /\ genOper(GenCount - 1) = 0
        /\ genAmount(GenCount - 1) = 0
        /\ \A j \in 0..(GenCount - 2) : genOper(j) # 0

\* A drum kit has been returned with two global generators and two zones of
\* four generators each (key range, pan, exclusive class, sample).
C19_Witness ==
    /\ status = "returned"
    /\ data.isDrumKit
    /\ Len(zoneDefs) = 2
    /\ GensWritten(0) = 2
    /\ \A k \in 1..2 : GensWritten(k) = 4 /\ zoneDefs[k].pan # 0
    /\ genNdx(3) = 10

\* The generators of zone k (k from 1) as a reader of the file finds them:
\* those from the zone's bag index up to the next bag's, operators and
\* amounts.
ZoneOpers(k) ==
    [ j \in 1..(genNdx(k + 1) - genNdx(k)) |-> genOper(genNdx(k) + j - 1) ]

ZoneAmounts(k) ==
    [ j \in 1..(genNdx(k + 1) - genNdx(k)) |-> genAmount(genNdx(k) + j - 1) ]

\* The operators zone z is to have, in order, and their amounts as unsigned
\* 16-bit words.
HasLoopMode(z) == z.sampleMode = 1

HasPan(z) == z.pan # 0

HasExclusiveClass(z) ==
    data.isDrumKit /\ IsDefined(z.exclusiveClass) /\ Val(z.exclusiveClass) > 0

OpersInOrder(z) ==
    << 43 >>
    \o (IF HasLoopMode(z) THEN << 54 >> ELSE <<>>)
    \o (IF HasPan(z) THEN << 17 >> ELSE <<>>)
    \o (IF HasExclusiveClass(z) THEN << 57 >> ELSE <<>>)
    \o << 53 >>

AmountsInOrder(z) ==
    << z.keyHi * 256 + z.keyLo >>
    \o (IF HasLoopMode(z) THEN << 1 >> ELSE <<>>)
    \o (IF HasPan(z) THEN << z.pan % 65536 >> ELSE <<>>)
    \o (IF HasExclusiveClass(z) THEN << Val(z.exclusiveClass) >> ELSE <<>>)
    \o << z.sampleID >>

\* C20: for every zone, its generators appear in igen in the order key range
\* (43), loop mode (54) only if the zone's sampleMode is 1, pan (17) only if
\* pan is nonzero, exclusive class (57) only in drum-kit mode with a class
\* above 0, sample reference (53); each zone has exactly one key-range
\* generator, first, and exactly one sample-reference generator, last.
C20_GeneratorOrder ==
    status = "returned" =>
        \A k \in 1..Len(zoneDefs) :
            LET opers == ZoneOpers(k)
            IN  /\ opers = OpersInOrder(zoneDefs[k])
                /\ ZoneAmounts(k) = AmountsInOrder(zoneDefs[k])
                /\ opers[1] = 43
                /\ opers[Len(opers)] = 53
                /\ Cardinality({ j \in 1..Len(opers) : opers[j] = 43 }) = 1
                /\ Cardinality({ j \in 1..Len(opers) : opers[j] = 53 }) = 1

\* A drum kit has been returned with a zone that has all five generators.
C20_Witness ==
    /\ status = "returned"
    /\ data.isDrumKit
    /\ \E k \in 1..Len(zoneDefs) :
           /\ ZoneOpers(k) = << 43, 54, 17, 57, 53 >>
           /\ ZoneAmounts(k)[3] = 65036

\* C21, as stated: ibag holds one bag per zone plus the terminal bag, and a
\* leading global bag only for a drum kit; in melodic mode the number of
\* ibag records is the zone count plus 1.
C21_AsStated ==
    status = "returned" =>
        BagCount = Len(zoneDefs) + 1 + (IF data.isDrumKit THEN 1 ELSE 0)

\* C21, amended: ibag holds a leading global bag in both modes, then one bag
\* per zone, then the terminal bag: the zone count plus 2 records.  The
\* global bag owns the two global generators (56, 38) of a drum kit and no
\* generator in melodic mode, and never a sample reference; every bag's
\* modulator index is 0.
C21_GlobalBagAlways ==
    status = "returned" =>
        /\ BagCount = Len(zoneDefs) + 2
        /\ ChunkSize(result, SubChunk(result, Str_pdta, Str_ibag)) = 4 * BagCount
        /\ \A k \in 0..(BagCount - 1) : modNdx(k) = 0
        /\ genNdx(0) = 0
        /\ genNdx(1) = (IF data.isDrumKit THEN 2 ELSE 0)
        /\ data.isDrumKit =>
               /\ genOper(0) = 56 /\ genAmount(0) = 0
               /\ genOper(1) = 38 /\ genAmount(1) = 12000
        /\ \A k \in 1..Len(zoneDefs) : genOper(genNdx(k)) = 43

\* A melodic font of two zones has been returned: its ibag has four records,
\* the first an empty global bag.
C21_Witness ==
    /\ status = "returned"
    /\ ~data.isDrumKit
    /\ Len(zoneDefs) = 2
    /\ BagCount = 4
    /\ genNdx(0) = genNdx(1)
    /\ genNdx(2) > 0

\* The number of records of `size` bytes in sub-chunk `tag` of pdta.
RecordCount(tag, size) == ChunkSize(result, SubChunk(result, Str_pdta, tag)) \div size

\* wPresetBagNdx of the EOP record (the second 38-byte record of phdr),
\* wInstBagNdx of the EOI record (the second 22-byte record of inst) and
\* wGenNdx of the terminal record of pbag.
EopBagNdx == Uint16At(result, SubChunk(result, Str_pdta, Str_phdr) + 38 + 24)

EoiBagNdx ==
    Uint16At(result, SubChunk(result, Str_pdta, Str_inst)
                     + 22 * (RecordCount(Str_inst, 22) - 1) + 20)

PbagTerminalGenNdx ==
    Uint16At(result, SubChunk(result, Str_pdta, Str_pbag)
                     + 4 * (RecordCount(Str_pbag, 4) - 1))

\* C22: the terminal header records point exactly one past the real bags:
\* EOP's bag index is the number of non-terminal pbag records, EOI's bag
\* index is the number of non-terminal ibag records (the zone count plus 1
\* for the global bag), and the terminal pbag record's generator index is
\* the number of non-terminal pgen records.
C22_TerminalsPointPastBags ==
    status = "returned" =>
        /\ RecordCount(Str_phdr, 38) = 2
        /\ RecordCount(Str_inst, 22) = 2
        /\ SubSeq(result, SubChunk(result, Str_pdta, Str_phdr) + 39,
                  SubChunk(result, Str_pdta, Str_phdr) + 42) = Str_EOP \o <<0>>
        /\ SubSeq(result, SubChunk(result, Str_pdta, Str_inst) + 23,
                  SubChunk(result, Str_pdta, Str_inst) + 26) = Str_EOI \o <<0>>
        /\ EopBagNdx = RecordCount(Str_pbag, 4) - 1
        /\ EoiBagNdx = RecordCount(Str_ibag, 4) - 1
        /\ EoiBagNdx = Len(zoneDefs) + 1
        /\ PbagTerminalGenNdx = RecordCount(Str_pgen, 4) - 1

\* A drum kit of two zones has been returned: EOI points at bag 3.
C22_Witness ==
    /\ status = "returned"
    /\ data.isDrumKit
    /\ Len(zoneDefs) = 2
    /\ EoiBagNdx = 3
    /\ EopBagNdx = 2
    /\ PbagTerminalGenNdx = 1

\* The list types of the chunks laid out from pos up to end, in order.
RECURSIVE ListTypes(_, _, _)
ListTypes(bytes, pos, end) ==
    IF pos + 12 > end THEN <<>>
    ELSE << TagAt(bytes, pos + 8) >>
         \o ListTypes(bytes, pos + 8 + Uint32At(bytes, pos + 4), end)

\* The returned file is a RIFF container of type sfbk holding exactly the
\* three LIST chunks INFO, sdta and pdta, in this order.
ThreeLists ==
    /\ TagAt(result, 0) = Str_RIFF
    /\ TagAt(result, 8) = Str_sfbk
    /\ ChunkTags(result, 12, Len(result)) = << Str_LIST, Str_LIST, Str_LIST >>
    /\ ListTypes(result, 12, Len(result)) = << Str_INFO, Str_sdta, Str_pdta >>

\* The last `size` bytes of sub-chunk `tag` of pdta: its terminal record.
LastRecord(tag, size) ==
    LET payload == SubChunk(result, Str_pdta, tag)
        n == ChunkSize(result, payload)
    IN  SubSeq(result, payload + n - size + 1, payload + n)

Zeros(n) == [ i \in 1..n |-> 0 ]

\* Each sub-chunk of pdta is a whole number of records that ends with its
\* terminal record: EOP, EOI and EOS by name, the others all zero but for
\* the index a terminal bag carries.
TerminalRecords ==
    /\ \A c \in { <<Str_phdr, 38>>, <<Str_pbag, 4>>, <<Str_pmod, 10>>, <<Str_pgen, 4>>,
                   <<Str_inst, 22>>, <<Str_ibag, 4>>, <<Str_imod, 10>>, <<Str_igen, 4>>,
                   <<Str_shdr, 46>> } :
           /\ ChunkSize(result, SubChunk(result, Str_pdta, c[1])) % c[2] = 0
           /\ ChunkSize(result, SubChunk(result, Str_pdta, c[1])) >= c[2]
    /\ SubSeq(LastRecord(Str_phdr, 38), 1, 20) = Str_EOP \o Zeros(17)
    /\ SubSeq(LastRecord(Str_inst, 22), 1, 20) = Str_EOI \o Zeros(17)
    /\ LastRecord(Str_shdr, 46) = Str_EOS \o Zeros(43)
    /\ LastRecord(Str_pmod, 10) = Zeros(10)
    /\ LastRecord(Str_imod, 10) = Zeros(10)
    /\ LastRecord(Str_pgen, 4) = Zeros(4)
    /\ LastRecord(Str_igen, 4) = Zeros(4)
    /\ SubSeq(LastRecord(Str_pbag, 4), 3, 4) = Zeros(2)
    /\ SubSeq(LastRecord(Str_ibag, 4), 3, 4) = Zeros(2)
    /\ RecordCount(Str_shdr, 46) = Len(allSamples) + 1

\* C23, as stated: the output is a RIFF container of type sfbk holding
\* exactly three LIST chunks in the order INFO, sdta, pdta, and the pdta
\* list holds exactly eight sub-chunks.
C23_AsStated ==
    status = "returned" =>
        /\ ThreeLists
        /\ Len(ListTags(result, Str_pdta)) = 8

\* C23, amended: the output is a RIFF container of type sfbk holding exactly
\* three LIST chunks in the order INFO, sdta, pdta; the pdta list holds
\* exactly nine sub-chunks, in the order phdr, pbag, pmod, pgen, inst, ibag,
\* imod, igen, shdr, each ending with one terminal record.
C23_NineSubChunks ==
    status = "returned" =>
        /\ ThreeLists
        /\ ListTags(result, Str_pdta) =
               << Str_phdr, Str_pbag, Str_pmod, Str_pgen, Str_inst,
                  Str_ibag, Str_imod, Str_igen, Str_shdr >>
        /\ ListTags(result, Str_sdta) = << Str_smpl >>
        /\ TerminalRecords

\* A font of two pool records has been returned: shdr holds three records.
C23_Witness ==
    /\ status = "returned"
    /\ Len(allSamples) = 2
    /\ Len(ListTags(result, Str_pdta)) = 9
    /\ RecordCount(Str_shdr, 46) = 3

\* C24: the placeholder record of an empty sample list is mono with 4 zero
\* frames, sample rate 44100, root note 60, sampleMode 0 and a 1-frame loop
\* region at the tail of the sample, loopStart = 3 and loopEnd = 4, the
\* default of every non-looping record.
C24_PlaceholderLoopAtTail ==
    (Prepared /\ data.samples = <<>>) =>
        /\ Len(allSamples) = 1
        /\ pool(0).pcm16 = <<0, 0, 0, 0>>
        /\ pool(0).channels = 1
        /\ pool(0).sampleType = 1
        /\ pool(0).sampleRate = 44100
        /\ pool(0).rootNote = 60
        /\ pool(0).sampleMode = 0
        /\ pool(0).loopStart = Len(pool(0).pcm16) - 1
        /\ pool(0).loopEnd = Len(pool(0).pcm16)

\* The runs of the melodic zone list: the zones pushed as main zones, which
\* are the zones that do not play a right-channel record.
Runs == { i \in 1..Len(zoneDefs) : ZoneSample(i).sampleType # 2 }

\* C25: in melodic mode the run compression emits maximal runs: each run
\* [lo, hi] holds only notes mapped to its sample and cannot be extended at
\* either end, consecutive runs reference different samples, no sample is
\* the main sample of two runs, and so there are at most as many runs as
\* pool records; exactly one mono sample gives exactly one zone, 0..127.
C25_MaximalRuns ==
    Melodic =>
        LET m == buildNoteToSampleIndex(allSamples)
        IN  /\ \A i \in Runs :
                   /\ \A note \in zoneDefs[i].keyLo..zoneDefs[i].keyHi :
                          m[note] = zoneDefs[i].sampleID
                   /\ zoneDefs[i].keyLo > 0 => m[zoneDefs[i].keyLo - 1] # zoneDefs[i].sampleID
                   /\ zoneDefs[i].keyHi < 127 => m[zoneDefs[i].keyHi + 1] # zoneDefs[i].sampleID
            /\ \A i, j \in Runs : i # j => zoneDefs[i].sampleID # zoneDefs[j].sampleID
            /\ \A i, j \in Runs :
                   (i < j /\ \A h \in Runs : ~(i < h /\ h < j)) =>
                       /\ zoneDefs[i].sampleID # zoneDefs[j].sampleID
                       /\ zoneDefs[j].keyLo = zoneDefs[i].keyHi + 1
            /\ Cardinality(Runs) <= Len(allSamples)
            /\ \A note \in 0..127 : \E i \in Runs : m[note] = zoneDefs[i].sampleID
            /\ (Len(data.samples) = 1 /\ data.samples[1].channels = 1) =>
                   /\ Len(zoneDefs) = 1
                   /\ zoneDefs[1].keyLo = 0 /\ zoneDefs[1].keyHi = 127
                   /\ zoneDefs[1].sampleID = 0

\* The melodic zones of three samples have been built: two runs, the third
\* sample the main sample of none.
C25_Witness ==
    /\ Melodic
    /\ Len(data.samples) = 3
    /\ \A k \in 1..3 : data.samples[k].channels = 1
    /\ Cardinality(Runs) = 2
    /\ zoneDefs[1].keyHi \in 1..126

\* C26, as stated: during an encode the write cursor never decreases: every
\* step of createSf2File, each chunk's length backpatch and the final RIFF
\* length backpatch included, leaves the cursor at or after its previous
\* position.
C26_AsStated == [][offset' >= offset]_vars

\* C26, amended: the cursor decreases in one step only, the seek of a
\* chunk's length backpatch, which moves it back to the chunk's length
\* field; the length is written there without moving it, and the next step
\* restores it to the chunk's end, where it was before the seek.  Every
\* other step, the final RIFF length backpatch included, leaves the cursor
\* at or after its previous position.
C26_CursorBackOnlyToPatch ==
    [][ /\ offset' < offset =>
               /\ at = "aligned" /\ at' = "seeked"
               /\ offset' = top.sizeOffset
               /\ offset' = top.chunkStart - 4
               /\ chunks'[Len(chunks)].savedPos = offset
        /\ at = "seeked" => offset' = offset
        /\ (at = "patched" /\ at' = "body") =>
               /\ offset' = top.savedPos
               /\ offset' = top.chunkStart + top.chunkSize
               /\ offset' > offset
        /\ (status = "writing" /\ status' = "returned") => offset' = offset
      ]_vars

\* The cursor has been moved back to the length field of a chunk nested in
\* another chunk, four bytes before the chunk's payload.
C26_Witness ==
    /\ status = "writing"
    /\ at = "seeked"
    /\ Len(chunks) = 2
    /\ offset = top.sizeOffset
    /\ offset < top.savedPos
    /\ top.chunkSize > 0

\* The Float32Array of the one mono sample of the input.
floatArray == Val(data.samples[1].rawMonoData)

\* A value clamped to [-1.0, 1.0], scaled by 32768 if negative and by 32767
\* if not, and truncated toward zero.
ClampedScaled(s) ==
    IF s >= FloatOne THEN 32767
    ELSE IF s <= -FloatOne THEN -32768
    ELSE IF s < 0 THEN -((-s * 32768) \div FloatOne)
    ELSE (s * 32767) \div FloatOne

\* C27: float32ToInt16 maps every value to a 16-bit signed integer in
\* -32768..32767: values above 1.0 count as 1.0 and values below -1.0 as
\* -1.0, negative values are scaled by 32768 and the others by 32767 and
\* truncated toward zero, so -1.0 gives -32768, 0 gives 0 and 1.0 gives
\* 32767; the mapping is non-decreasing and keeps the length.
C27_Float32ToInt16 ==
    (Prepared /\ data \in FloatInputs) =>
        LET int16 == pool(0).pcm16
        IN  /\ int16 = float32ToInt16(floatArray)
            /\ Len(int16) = Len(floatArray)
            /\ \A i \in 1..Len(int16) :
                   /\ int16[i] \in -32768..32767
                   /\ int16[i] = ClampedScaled(floatArray[i])
                   /\ floatArray[i] = -FloatOne => int16[i] = -32768
                   /\ floatArray[i] = 0 => int16[i] = 0
                   /\ floatArray[i] = FloatOne => int16[i] = 32767
                   /\ floatArray[i] > FloatOne => int16[i] = 32767
                   /\ floatArray[i] < -FloatOne => int16[i] = -32768
            /\ \A i, j \in 1..Len(int16) :
                   floatArray[i] <= floatArray[j] => int16[i] <= int16[j]

\* The pool holds the conversion of a value above 1.0 and of a negative
\* value that truncates to 0.
C27_Witness ==
    /\ Prepared
    /\ data \in FloatInputs
    /\ floatArray = << FloatOne + 1, -1 >>
    /\ pool(0).pcm16 = << 32767, 0 >>

\* The zone list has been built.
Zoned == status \in {"zoned", "writing", "returned"}

\* C28: in both modes every zone's sampleID is an index into the sample
\* pool, and the amount of each sample-reference generator (53) of igen is
\* that index; in drum-kit mode every pool record is referenced by exactly
\* one zone, so there are as many zones as pool records.
C28_SampleReferences ==
    /\ Zoned =>
           /\ \A k \in 1..Len(zoneDefs) :
                  zoneDefs[k].sampleID \in 0..(Len(allSamples) - 1)
           /\ data.isDrumKit =>
                  /\ \A i \in 0..(Len(allSamples) - 1) :
                         Cardinality({ k \in 1..Len(zoneDefs) : zoneDefs[k].sampleID = i }) = 1
                  /\ Len(zoneDefs) = Len(allSamples)
    /\ status = "returned" =>
           /\ \A k \in 1..Len(zoneDefs) :
                  /\ genOper(genNdx(k + 1) - 1) = 53
                  /\ genAmount(genNdx(k + 1) - 1) = zoneDefs[k].sampleID
           /\ \A j \in 0..(GenCount - 1) :
                  genOper(j) = 53 => genAmount(j) \in 0..(Len(allSamples) - 1)
           /\ Cardinality({ j \in 0..(GenCount - 1) : genOper(j) = 53 }) = Len(zoneDefs)

\* A drum kit of one stereo sample has been returned: two pool records, two
\* zones, sample references 0 and 1.
C28_Witness ==
    /\ status = "returned"
    /\ data.isDrumKit
    /\ Len(allSamples) = 2
    /\ pool(0).sampleType = 4
    /\ genAmount(genNdx(2) - 1) = 0
    /\ genAmount(genNdx(3) - 1) = 1

\* The four bytes of the length field at pos, and whether two buffers are
\* the same but for the length field at pos.
FieldAt(bytes, pos) == SubSeq(bytes, pos + 1, pos + 4)

SameButField(old, new, pos) ==
    /\ Len(new) = Len(old)
    /\ \A i \in 1..Len(old) : i \notin (pos + 1)..(pos + 4) => new[i] = old[i]

\* The bytes written so far are buffer; a step that only adds bytes after
\* them overwrites nothing.
OnlyAppends == Len(buffer') >= Len(buffer) /\ SubSeq(buffer', 1, Len(buffer)) = buffer

\* C29: length fields are the only bytes ever rewritten.  Outside the
\* backpatches the cursor is at the end of the bytes written, so every
\* write lands on fresh bytes; a chunk's length field gets its zero
\* placeholder when the chunk is entered and its final value in the one
\* backpatch step of that chunk, which changes nothing else; the chunk
\* patched is the last one opened, while the length fields of the chunks
\* around it and of RIFF still hold their placeholder; the RIFF length
\* backpatch changes only that field, after every chunk is closed, and is
\* the last write of the encode.
C29_OnlyLengthsRewritten ==
    [][ /\ (status = "writing" /\ at = "body") =>
               /\ offset = Len(buffer)
               /\ pc' >= pc
               /\ status' # "returned" => OnlyAppends
        /\ (status = "writing" /\ Len(chunks') > Len(chunks)) =>
               /\ chunks' = Append(chunks, chunks'[Len(chunks')])
               /\ chunks'[Len(chunks')].sizeOffset = Len(buffer) + 4
               /\ FieldAt(buffer', Len(buffer) + 4) = zeros(4)
               /\ Len(buffer') = Len(buffer) + 8
        /\ (status = "writing" /\ at = "aligned") =>
               /\ at' = "seeked"
               /\ buffer' = buffer
        /\ (status = "writing" /\ at = "seeked") =>
               /\ offset = top.sizeOffset
               /\ FieldAt(buffer, top.sizeOffset) = zeros(4)
               /\ at' = "patched"
               /\ FieldAt(buffer', top.sizeOffset) = uint32(top.chunkSize)
               /\ SameButField(buffer, buffer', top.sizeOffset)
               /\ \A i \in 1..(Len(chunks) - 1) :
                      /\ chunks[i].sizeOffset < top.sizeOffset
                      /\ FieldAt(buffer', chunks[i].sizeOffset) = zeros(4)
               /\ FieldAt(buffer', totalSizeOffset) = zeros(4)
        /\ (status = "writing" /\ at = "patched") =>
               /\ chunks' = SubSeq(chunks, 1, Len(chunks) - 1)
               /\ at' = "body"
               /\ buffer' = buffer
        /\ (status = "writing" /\ status' = "returned") =>
               /\ chunks = <<>>
               /\ pc = Len(script)
               /\ FieldAt(buffer, totalSizeOffset) = zeros(4)
               /\ FieldAt(buffer', totalSizeOffset) = uint32(Len(buffer) - 8)
               /\ SameButField(buffer, buffer', totalSizeOffset)
        /\ status = "returned" => buffer' = buffer
      ]_vars

\* The length of a chunk nested in a LIST chunk has been backpatched; the
\* LIST's and the RIFF length fields still hold their placeholder.
C29_Witness ==
    /\ status = "writing"
    /\ at = "patched"
    /\ Len(chunks) = 2
    /\ top.chunkSize > 0
    /\ FieldAt(buffer, top.sizeOffset) = uint32(top.chunkSize)
    /\ FieldAt(buffer, chunks[1].sizeOffset) = zeros(4)
    /\ FieldAt(buffer, totalSizeOffset) = zeros(4)

====
